---- MODULE Spec2Model ----
(***************************************************************************)
(* Agent Builder: the agent repository (single-table key-value store with  *)
(* owner, public and favorite records), the service layer that wraps it,   *)
(* the operations the HTTP handlers dispatch to, and the browser's list    *)
(* hook with its three paginated caches and optimistic mutations.          *)
(*                                                                         *)
(* Strings that the code builds or takes apart are sequences of words:     *)
(* the key `agent#${userId}` is <<"agent", userId>>, a name is a sequence  *)
(* of words in which " " is white space, an error message is the sequence  *)
(* of its words.  createdAt/updatedAt are left out of the items: the code  *)
(* only stores them, and no key, order or decision depends on them.        *)
(* An attribute whose value is undefined (createdByEmail of a clone) is    *)
(* absent from the stored item.                                            *)
(***************************************************************************)
EXTENDS Integers, Sequences, FiniteSets, TLC

VARIABLES
    table,    \* the store: composite key -> item (USECASE_TABLE_NAME)
    nextId,   \* how many ids uuidv7() has handed out, plus one
    opCount,  \* number of handler invocations so far
    lastOp,   \* the last handler invocation: its input and its response
    hist,     \* history: per created agent id, who created it and what
              \* the owner asked for since
    swr,      \* the browser's three useSWRInfinite caches, by list
    inflight, \* the client mutation whose network call has not settled yet
              \* (where toggles overlap: the sequence of those in flight)
    clientOp, \* the last step of the client: what it refetched and toasted
    conc      \* the repository calls that run concurrently, each with the
              \* store requests it has still to send, and the store they
              \* started from

clientVars == <<swr, inflight, clientOp>>
vars == <<table, nextId, opCount, lastOp, hist, swr, inflight, clientOp, conc>>

---------------------------------------------------------------------------
(* Bounds *)

MaxAgents == 2
MaxOps == 4
MaxLimit == 1

Users == {"u1", "u2"}
\* the lists of the browser: owned, favorites, public
Lists == {"my", "favorites", "public"}

\* uuidv7 is time ordered: the n-th id sorts after the (n-1)-th
AgentIdOf(n) == "a" \o ToString(n)
AgentIds == {AgentIdOf(n) : n \in 1..MaxAgents}
IdIndex(a) == CHOOSE n \in 1..MaxAgents : AgentIdOf(n) = a

Null == [null |-> TRUE]
NoToken == <<>>

---------------------------------------------------------------------------
(* Strings *)

RECURSIVE TrimStart(_)
TrimStart(s) ==
    IF s # <<>> /\ Head(s) = " " THEN TrimStart(Tail(s)) ELSE s

RECURSIVE TrimEnd(_)
TrimEnd(s) ==
    IF s # <<>> /\ s[Len(s)] = " " THEN TrimEnd(SubSeq(s, 1, Len(s) - 1)) ELSE s

Trim(s) == TrimEnd(TrimStart(s))

\* String.prototype.includes: a contiguous, case-sensitive match
Includes(msg, part) ==
    \E i \in 1..(Len(msg) - Len(part) + 1) :
        SubSeq(msg, i, i + Len(part) - 1) = part

\* (request.tags || []).map(trim).filter(len > 0)
RECURSIVE TrimTags(_)
TrimTags(tags) ==
    IF tags = <<>> THEN <<>>
    ELSE LET h == Trim(Head(tags))
         IN  IF h = <<>> THEN TrimTags(Tail(tags))
             ELSE <<h>> \o TrimTags(Tail(tags))

---------------------------------------------------------------------------
(* The key-value store: single-item put/delete/update, batched get *)

OwnerKey(userId, agentId) ==
    [id |-> <<"agent", userId>>, dataType |-> <<"agent", agentId>>]
PublicKey(agentId) ==
    [id |-> <<"public-agents">>, dataType |-> <<"public", agentId>>]
FavoriteKey(userId, agentId) ==
    [id |-> <<"agent", userId>>, dataType |-> <<"favorite", agentId>>]

KeyOf(item) == [id |-> item.id, dataType |-> item.dataType]

PutItem(t, item) == (KeyOf(item) :> item) @@ t

DeleteItem(t, key) == [k \in DOMAIN t \ {key} |-> t[k]]

\* UpdateItem creates the item when the key is absent (upsert)
UpdateSet(t, key, attrs) ==
    LET old == IF key \in DOMAIN t THEN t[key] ELSE key
    IN  (key :> (attrs @@ old)) @@ t

\* UpdateExpression 'ADD attr :n': an absent attribute counts as 0
UpdateAdd(t, key, attr, n) ==
    LET old == IF key \in DOMAIN t THEN t[key] ELSE key
        cur == IF attr \in DOMAIN old THEN old[attr] ELSE 0
    IN  (key :> ((attr :> (cur + n)) @@ old)) @@ t

\* BatchGetItem: the items found, in no particular order
BatchGet(t, keys) == {t[k] : k \in {x \in keys : x \in DOMAIN t}}

\* BatchGetItem rejects a request that names no key
BatchGetRejects(keys) == keys = {}

\* the attributes of `names` that the record has
Pick(rec, names) == [a \in (DOMAIN rec \cap names) |-> rec[a]]

\* a JS truthiness test of an attribute that may be absent
Truthy(item, attr) == attr \in DOMAIN item /\ item[attr] = TRUE
\* `${item.attr}` of an attribute that may be absent
Str(item, attr) == IF attr \in DOMAIN item THEN item[attr] ELSE "undefined"

\* { ...item, id: `agent#${item.createdBy}`, dataType: `agent#${item.agentId}` }
MapPublicItem(item) ==
    [id |-> <<"agent", Str(item, "createdBy")>>,
     dataType |-> <<"agent", Str(item, "agentId")>>] @@ item

---------------------------------------------------------------------------
(* Repository *)

findAgentByAgentId(t, agentId, userId) ==
    LET first(mine, pub) ==
            IF mine # {} THEN CHOOSE i \in mine : TRUE
            ELSE IF pub # {} THEN MapPublicItem(CHOOSE i \in pub : TRUE)
            ELSE Null
        find(items) ==
            first({i \in items : i.id = <<"agent", userId>>},
                  {i \in items : i.id = <<"public-agents">>})
    IN  find(BatchGet(t, {OwnerKey(userId, agentId), PublicKey(agentId)}))

\* mutant: the public copy is written but never removed
managePublicAgentRecord_NeverDeletes(t, agentId, isPublic, agentData) ==
    LET key == PublicKey(agentId)
    IN  IF isPublic /\ agentData # Null
        THEN PutItem(t, key @@ agentData)
        ELSE t

managePublicAgentRecord(t, agentId, isPublic, agentData) ==
    LET key == PublicKey(agentId)
    IN  IF isPublic /\ agentData # Null
        THEN PutItem(t, key @@ agentData)
        ELSE DeleteItem(t, key)

\* mutant: the requested visibility is ignored and the agent stored public
createAgent_AlwaysPublic(t, userId, content, agentId) ==
    LET put(item) ==
            [t |-> managePublicAgentRecord(PutItem(t, item), agentId, TRUE, item),
             out |-> [isMyAgent |-> TRUE] @@ item]
    IN  put([id |-> <<"agent", userId>>,
                   dataType |-> <<"agent", agentId>>,
                   agentId |-> agentId,
                   name |-> content.name,
                   description |-> IF "description" \in DOMAIN content
                                   THEN content.description ELSE <<>>,
                   systemPrompt |-> content.systemPrompt,
                   modelId |-> content.modelId,
                   mcpServers |-> content.mcpServers,
                   codeExecutionEnabled |-> Truthy(content, "codeExecutionEnabled"),
                   tags |-> IF "tags" \in DOMAIN content THEN content.tags ELSE <<>>,
                   isPublic |-> TRUE,
                   starCount |-> 0,
                   createdBy |-> userId]
                  @@ Pick(content, {"createdByEmail"}))

\* mutant: the public copy of a public agent is not written
createAgent_NeverPublishes(t, userId, content, agentId) ==
    LET put(item) ==
            [t |-> PutItem(t, item),
             out |-> [isMyAgent |-> TRUE] @@ item]
    IN  put([id |-> <<"agent", userId>>,
                   dataType |-> <<"agent", agentId>>,
                   agentId |-> agentId,
                   name |-> content.name,
                   description |-> IF "description" \in DOMAIN content
                                   THEN content.description ELSE <<>>,
                   systemPrompt |-> content.systemPrompt,
                   modelId |-> content.modelId,
                   mcpServers |-> content.mcpServers,
                   codeExecutionEnabled |-> Truthy(content, "codeExecutionEnabled"),
                   tags |-> IF "tags" \in DOMAIN content THEN content.tags ELSE <<>>,
                   isPublic |-> Truthy(content, "isPublic"),
                   starCount |-> 0,
                   createdBy |-> userId]
                  @@ Pick(content, {"createdByEmail"}))

createAgent(t, userId, content, agentId) ==
    LET put(item) ==
            [t |-> IF item.isPublic
                   THEN managePublicAgentRecord(PutItem(t, item), agentId, TRUE, item)
                   ELSE PutItem(t, item),
             out |-> [isMyAgent |-> TRUE] @@ item]
    IN  put([id |-> <<"agent", userId>>,
                   dataType |-> <<"agent", agentId>>,
                   agentId |-> agentId,
                   name |-> content.name,
                   description |-> IF "description" \in DOMAIN content
                                   THEN content.description ELSE <<>>,
                   systemPrompt |-> content.systemPrompt,
                   modelId |-> content.modelId,
                   mcpServers |-> content.mcpServers,
                   codeExecutionEnabled |-> Truthy(content, "codeExecutionEnabled"),
                   tags |-> IF "tags" \in DOMAIN content THEN content.tags ELSE <<>>,
                   isPublic |-> Truthy(content, "isPublic"),
                   starCount |-> 0,
                   createdBy |-> userId]
                  @@ Pick(content, {"createdByEmail"}))

getAgent(t, userId, agentId) ==
    LET check(agent) ==
            IF agent = Null THEN Null
            ELSE LET isMyAgent == Str(agent, "createdBy") = userId
                 IN  IF ~isMyAgent /\ ~Truthy(agent, "isPublic") THEN Null
                     ELSE [isMyAgent |-> isMyAgent] @@ agent
    IN  check(findAgentByAgentId(t, agentId, userId))

AccessDeniedMessage(agentId) ==
    <<"Agent", "not", "found", "or", "access", "denied", ":", agentId>>

\* mutant: any caller who can see the agent may update it
updateAgent_NoOwnerCheck(t, userId, agentId, content) ==
    LET write(agent) ==
        IF agent = Null
        THEN [t |-> t, threw |-> TRUE, message |-> AccessDeniedMessage(agentId)]
        ELSE
        LET isNowPublic == Truthy(content, "isPublic")
            changed == ("isPublic" \in DOMAIN agent => agent.isPublic # isNowPublic)
            normal == [description |-> IF "description" \in DOMAIN content
                                       THEN content.description ELSE <<>>,
                       codeExecutionEnabled |-> Truthy(content, "codeExecutionEnabled"),
                       tags |-> IF "tags" \in DOMAIN content THEN content.tags ELSE <<>>,
                       isPublic |-> isNowPublic]
            \* { ...agent, ...content, description, codeExecutionEnabled, tags, isPublic }
            publish(t1) ==
                IF changed \/ isNowPublic
                THEN managePublicAgentRecord(t1, agentId, isNowPublic,
                                             normal @@ content @@ agent)
                ELSE t1
        IN  \* Update main agent record, then the public copy
            [t |-> publish(UpdateSet(t, KeyOf(agent),
                      normal @@ Pick(content, {"name", "systemPrompt", "modelId",
                                               "mcpServers", "createdByEmail"}))),
             threw |-> FALSE, message |-> <<>>]
    IN  write(findAgentByAgentId(t, agentId, userId))

updateAgent(t, userId, agentId, content) ==
    LET write(agent) ==
        IF agent = Null \/ Str(agent, "createdBy") # userId
        THEN [t |-> t, threw |-> TRUE, message |-> AccessDeniedMessage(agentId)]
        ELSE
        LET isNowPublic == Truthy(content, "isPublic")
            changed == ("isPublic" \in DOMAIN agent => agent.isPublic # isNowPublic)
            normal == [description |-> IF "description" \in DOMAIN content
                                       THEN content.description ELSE <<>>,
                       codeExecutionEnabled |-> Truthy(content, "codeExecutionEnabled"),
                       tags |-> IF "tags" \in DOMAIN content THEN content.tags ELSE <<>>,
                       isPublic |-> isNowPublic]
            \* { ...agent, ...content, description, codeExecutionEnabled, tags, isPublic }
            publish(t1) ==
                IF changed \/ isNowPublic
                THEN managePublicAgentRecord(t1, agentId, isNowPublic,
                                             normal @@ content @@ agent)
                ELSE t1
        IN  \* Update main agent record, then the public copy
            [t |-> publish(UpdateSet(t, KeyOf(agent),
                      normal @@ Pick(content, {"name", "systemPrompt", "modelId",
                                               "mcpServers", "createdByEmail"}))),
             threw |-> FALSE, message |-> <<>>]
    IN  write(findAgentByAgentId(t, agentId, userId))

\* mutant: the owner record is deleted, the public copy is left behind
deleteAgent_KeepsPublicCopy(t, userId, agentId) ==
    LET remove(agent) ==
        IF agent = Null \/ Str(agent, "createdBy") # userId
        THEN [t |-> t, threw |-> TRUE, message |-> AccessDeniedMessage(agentId)]
        ELSE [t |-> DeleteItem(t, KeyOf(agent)), threw |-> FALSE, message |-> <<>>]
    IN  remove(findAgentByAgentId(t, agentId, userId))

\* mutant: the favorite records that point at the agent are deleted with it
deleteAgent_DropsFavorites(t, userId, agentId) ==
    LET remove(agent) ==
        IF agent = Null \/ Str(agent, "createdBy") # userId
        THEN [t |-> t, threw |-> TRUE, message |-> AccessDeniedMessage(agentId)]
        ELSE [t |-> [k \in {x \in DOMAIN t : x.dataType[2] # agentId} |-> t[k]],
              threw |-> FALSE, message |-> <<>>]
    IN  remove(findAgentByAgentId(t, agentId, userId))

deleteAgent(t, userId, agentId) ==
    LET remove(agent) ==
        IF agent = Null \/ Str(agent, "createdBy") # userId
        THEN [t |-> t, threw |-> TRUE, message |-> AccessDeniedMessage(agentId)]
        ELSE [t |-> IF Truthy(agent, "isPublic")
                    THEN managePublicAgentRecord(DeleteItem(t, KeyOf(agent)),
                                                 agentId, FALSE, Null)
                    ELSE DeleteItem(t, KeyOf(agent)),
              threw |-> FALSE, message |-> <<>>]
    IN  remove(findAgentByAgentId(t, agentId, userId))

CannotFavoriteMessage(agentId) ==
    <<"Cannot", "add", "deleted", "or", "non-existent", "agent", "to",
      "favorites:", agentId>>

\* the agent toggleFavorite resolves from its batched read
toggleAgentOf(t, userId, agentId) ==
    LET first(mine, pub) ==
            IF mine # {} THEN CHOOSE i \in mine : TRUE
            ELSE IF pub # {} THEN MapPublicItem(CHOOSE i \in pub : TRUE)
            ELSE Null
        find(items) ==
            first({i \in items : KeyOf(i) = OwnerKey(userId, agentId)},
                  {i \in items : i.id = <<"public-agents">>})
    IN  find(BatchGet(t, {FavoriteKey(userId, agentId),
                          OwnerKey(userId, agentId), PublicKey(agentId)}))

\* the counter updates of toggleFavorite: owner record, then public copy
addStar(t, agent, agentId, n) ==
    IF Truthy(agent, "isPublic")
    THEN UpdateAdd(UpdateAdd(t, KeyOf(agent), "starCount", n),
                   PublicKey(agentId), "starCount", n)
    ELSE UpdateAdd(t, KeyOf(agent), "starCount", n)

\* mutant: removing a favorite leaves the counters as they are
toggleFavorite_NoDecrement(t, userId, agentId) ==
    LET key == FavoriteKey(userId, agentId)
        toggle(agent) ==
            IF key \in DOMAIN t
            THEN [t |-> DeleteItem(t, key), threw |-> FALSE, message |-> <<>>,
                  isFavorite |-> FALSE]
            ELSE IF agent = Null
            THEN [t |-> t, threw |-> TRUE,
                  message |-> CannotFavoriteMessage(agentId), isFavorite |-> FALSE]
            ELSE [t |-> addStar(PutItem(t, key @@ [agentId |-> agentId,
                                                   createdBy |-> Str(agent, "createdBy")]),
                                agent, agentId, 1),
                  threw |-> FALSE, message |-> <<>>, isFavorite |-> TRUE]
    IN  toggle(toggleAgentOf(t, userId, agentId))

\* mutant: a favorite is recorded even when the agent is not resolved
toggleFavorite_AddsUnresolved(t, userId, agentId) ==
    LET key == FavoriteKey(userId, agentId)
        toggle(agent) ==
            IF key \in DOMAIN t
            THEN [t |-> IF agent # Null
                        THEN addStar(DeleteItem(t, key), agent, agentId, -1)
                        ELSE DeleteItem(t, key),
                  threw |-> FALSE, message |-> <<>>, isFavorite |-> FALSE]
            ELSE IF agent = Null
            THEN [t |-> PutItem(t, key @@ [agentId |-> agentId, createdBy |-> ""]),
                  threw |-> FALSE, message |-> <<>>, isFavorite |-> TRUE]
            ELSE [t |-> addStar(PutItem(t, key @@ [agentId |-> agentId,
                                                   createdBy |-> Str(agent, "createdBy")]),
                                agent, agentId, 1),
                  threw |-> FALSE, message |-> <<>>, isFavorite |-> TRUE]
    IN  toggle(toggleAgentOf(t, userId, agentId))

\* mutant: removing a favorite decrements the counters of the agent even
\* when the batched read found no agent
toggleFavorite_DecrementsUnresolved(t, userId, agentId) ==
    LET key == FavoriteKey(userId, agentId)
        toggle(agent) ==
            IF key \in DOMAIN t
            THEN [t |-> IF agent # Null
                        THEN addStar(DeleteItem(t, key), agent, agentId, -1)
                        ELSE UpdateAdd(UpdateAdd(DeleteItem(t, key),
                                                 OwnerKey(Str(t[key], "createdBy"), agentId),
                                                 "starCount", -1),
                                       PublicKey(agentId), "starCount", -1),
                  threw |-> FALSE, message |-> <<>>, isFavorite |-> FALSE]
            ELSE IF agent = Null
            THEN [t |-> t, threw |-> TRUE,
                  message |-> CannotFavoriteMessage(agentId), isFavorite |-> FALSE]
            ELSE [t |-> addStar(PutItem(t, key @@ [agentId |-> agentId,
                                                   createdBy |-> Str(agent, "createdBy")]),
                                agent, agentId, 1),
                  threw |-> FALSE, message |-> <<>>, isFavorite |-> TRUE]
    IN  toggle(toggleAgentOf(t, userId, agentId))

toggleFavorite(t, userId, agentId) ==
    LET key == FavoriteKey(userId, agentId)
        toggle(agent) ==
            IF key \in DOMAIN t
            THEN \* remove from favorites, always allowed; the counters are
                 \* decremented only if the agent exists
                 [t |-> IF agent # Null
                        THEN addStar(DeleteItem(t, key), agent, agentId, -1)
                        ELSE DeleteItem(t, key),
                  threw |-> FALSE, message |-> <<>>, isFavorite |-> FALSE]
            ELSE IF agent = Null
            THEN [t |-> t, threw |-> TRUE,
                  message |-> CannotFavoriteMessage(agentId), isFavorite |-> FALSE]
            ELSE [t |-> addStar(PutItem(t, key @@ [agentId |-> agentId,
                                                   createdBy |-> Str(agent, "createdBy")]),
                                agent, agentId, 1),
                  threw |-> FALSE, message |-> <<>>, isFavorite |-> TRUE]
    IN  toggle(toggleAgentOf(t, userId, agentId))

---------------------------------------------------------------------------
(* Range queries and pagination *)

ServerMaxLimit == 100
DefaultLimit == 12
\* an absent `limit` argument is written 0
NoLimit == 0

Min(a, b) == IF a < b THEN a ELSE b

\* the keys of S from the largest sort key down (ScanIndexForward: false)
RECURSIVE SortDesc(_)
SortDesc(S) ==
    IF S = {} THEN <<>>
    ELSE LET top == CHOOSE k \in S :
                        \A o \in S : IdIndex(o.dataType[2]) <= IdIndex(k.dataType[2])
         IN  <<top>> \o SortDesc(S \ {top})

\* mutant: the read resumes at the start key instead of after it
Query_InclusiveStart(t, pk, prefix, startKey, limit) ==
    LET read(order) ==
            LET n == Min(limit, Len(order))
            IN  [Items |-> [i \in 1..n |-> t[order[i]]],
                 LastEvaluatedKey |-> IF n = limit /\ n > 0 THEN order[n] ELSE Null]
    IN  read(SortDesc({k \in DOMAIN t :
                         /\ k.id = pk
                         /\ k.dataType[1] = prefix
                         /\ startKey # Null =>
                               IdIndex(k.dataType[2]) <= IdIndex(startKey.dataType[2])}))

\* Query: partition pk, sort key begins_with prefix, newest first, at most
\* `limit` items after startKey; LastEvaluatedKey is set when the limit
\* stopped the read
Query(t, pk, prefix, startKey, limit) ==
    LET read(order) ==
            LET n == Min(limit, Len(order))
            IN  [Items |-> [i \in 1..n |-> t[order[i]]],
                 LastEvaluatedKey |-> IF n = limit /\ n > 0 THEN order[n] ELSE Null]
    IN  read(SortDesc({k \in DOMAIN t :
                         /\ k.id = pk
                         /\ k.dataType[1] = prefix
                         /\ startKey # Null =>
                               IdIndex(k.dataType[2]) < IdIndex(startKey.dataType[2])}))

\* Buffer.from(JSON.stringify(key)).toString('base64')
EncodeKey(key) == IF key = Null THEN NoToken ELSE <<"base64", key>>
\* JSON.parse(Buffer.from(token, 'base64').toString())
DecodeKey(token) == IF token = NoToken THEN Null ELSE token[2]

LimitOrDefault(limit) == IF limit = NoLimit THEN DefaultLimit ELSE limit

findAgentsByUserId(t, userId, exclusiveStartKey, limit) ==
    LET page(result) ==
            [agents |-> result.Items,
             lastEvaluatedKey |-> EncodeKey(result.LastEvaluatedKey)]
    IN  page(Query(t, <<"agent", userId>>, "agent",
                   DecodeKey(exclusiveStartKey),
                   Min(LimitOrDefault(limit), ServerMaxLimit)))

findFavoritesByUserId(t, userId, exclusiveStartKey, limit) ==
    LET page(result) ==
            [favorites |-> [i \in 1..Len(result.Items) |->
                              [dataType |-> result.Items[i].dataType,
                               agentId |-> result.Items[i].dataType[2],
                               createdBy |-> IF "createdBy" \in DOMAIN result.Items[i]
                                             THEN result.Items[i].createdBy ELSE ""]],
             lastEvaluatedKey |-> EncodeKey(result.LastEvaluatedKey)]
    IN  page(Query(t, <<"agent", userId>>, "favorite",
                   DecodeKey(exclusiveStartKey),
                   Min(LimitOrDefault(limit), ServerMaxLimit)))

\* the agents the favorites resolve to, from one batched read
findAgentsByFavorites(t, favorites, userId) ==
    LET get(allKeys) ==
            IF BatchGetRejects(allKeys) THEN [threw |-> TRUE, agents |-> {}]
            ELSE [threw |-> FALSE,
                  agents |-> {IF item.id = <<"public-agents">>
                              THEN MapPublicItem(item) ELSE item
                              : item \in BatchGet(t, allKeys)}]
    IN  IF Len(favorites) = 0 THEN [threw |-> FALSE, agents |-> {}]
        ELSE get({IF favorites[i].createdBy = userId
                  THEN OwnerKey(userId, favorites[i].agentId)
                  ELSE PublicKey(favorites[i].agentId)
                  : i \in 1..Len(favorites)})

DeletedPlaceholder(favorite) ==
    [id |-> <<"agent", "unknown">>,
     dataType |-> <<"agent", favorite.agentId>>,
     agentId |-> favorite.agentId,
     name |-> <<"Deleted", " ", "Agent">>,
     description |-> <<"This", " ", "agent", " ", "has", " ", "been", " ", "deleted">>,
     systemPrompt |-> <<>>,
     modelId |-> "",
     mcpServers |-> <<>>,
     codeExecutionEnabled |-> FALSE,
     tags |-> <<>>,
     isPublic |-> FALSE,
     starCount |-> 0,
     createdBy |-> favorite.createdBy,
     createdByEmail |-> "",
     isMyAgent |-> FALSE,
     status |-> "deleted"]

\* mutant: a favorite whose agent is not resolved is left out of the page
listFavoriteAgents_DropsMissing(t, userId, exclusiveStartKey, limit) ==
    LET entry(agent) ==
            [isMyAgent |-> Str(agent, "createdBy") = userId,
             status |-> IF Str(agent, "createdBy") # userId /\ ~Truthy(agent, "isPublic")
                        THEN "private" ELSE "available"] @@ agent
        found(agents, favorite) ==
            {a \in agents : Str(a, "agentId") = favorite.agentId}
        merge(favoritesResult, kept, agents) ==
            [threw |-> FALSE,
             data |-> [i \in 1..Len(kept) |->
                         entry(CHOOSE a \in found(agents, kept[i]) : TRUE)],
             lastEvaluatedKey |-> favoritesResult.lastEvaluatedKey]
        resolve(favoritesResult, agents) ==
            merge(favoritesResult,
                  SelectSeq(favoritesResult.favorites,
                            LAMBDA f : found(agents, f) # {}),
                  agents)
        list(favoritesResult) ==
            resolve(favoritesResult,
                    findAgentsByFavorites(t, favoritesResult.favorites, userId).agents)
    IN  list(findFavoritesByUserId(t, userId, exclusiveStartKey, limit))

listFavoriteAgents(t, userId, exclusiveStartKey, limit) ==
    LET available(agent) ==
            [isMyAgent |-> Str(agent, "createdBy") = userId,
             status |-> IF Str(agent, "createdBy") # userId /\ ~Truthy(agent, "isPublic")
                        THEN "private" ELSE "available"] @@ agent
        entry(favorite, found) ==
            IF found = {} THEN DeletedPlaceholder(favorite)
            ELSE available(CHOOSE a \in found : TRUE)
        merge(favoritesResult, resolved) ==
            IF resolved.threw
            THEN [threw |-> TRUE, data |-> <<>>, lastEvaluatedKey |-> NoToken]
            ELSE [threw |-> FALSE,
                  data |-> [i \in 1..Len(favoritesResult.favorites) |->
                              entry(favoritesResult.favorites[i],
                                    {a \in resolved.agents :
                                       Str(a, "agentId")
                                       = favoritesResult.favorites[i].agentId})],
                  lastEvaluatedKey |-> favoritesResult.lastEvaluatedKey]
        list(favoritesResult) ==
            merge(favoritesResult,
                  findAgentsByFavorites(t, favoritesResult.favorites, userId))
    IN  list(findFavoritesByUserId(t, userId, exclusiveStartKey, limit))

\* the ids of `agents` for which the caller has a favorite record
favoritedAgentIds(t, userId, agents) ==
    {item.dataType[2] :
        item \in BatchGet(t, {FavoriteKey(userId, Str(agents[i], "agentId"))
                              : i \in 1..Len(agents)})}

listAgentsWithFavorites(t, userId, exclusiveStartKey, limit) ==
    LET merge(agentsResult, favs) ==
            [data |-> [i \in 1..Len(agentsResult.agents) |->
                         [isMyAgent |-> TRUE,
                          isFavorite |-> Str(agentsResult.agents[i], "agentId") \in favs]
                         @@ agentsResult.agents[i]],
             lastEvaluatedKey |-> agentsResult.lastEvaluatedKey]
        list(agentsResult) ==
            merge(agentsResult, favoritedAgentIds(t, userId, agentsResult.agents))
    IN  list(findAgentsByUserId(t, userId, exclusiveStartKey, limit))

\* mutant: every item of the public list is marked as the caller's own
listPublicAgentsWithFavoritesPaginated_AllMine(t, userId, exclusiveStartKey, limit) ==
    LET merge(publicResult, agents, favs) ==
            [data |-> [i \in 1..Len(agents) |->
                         [isFavorite |-> Str(agents[i], "agentId") \in favs,
                          isMyAgent |-> TRUE]
                         @@ agents[i]],
             lastEvaluatedKey |-> EncodeKey(publicResult.LastEvaluatedKey)]
        mark(publicResult, agents) ==
            merge(publicResult, agents, favoritedAgentIds(t, userId, agents))
        list(publicResult) ==
            mark(publicResult, [i \in 1..Len(publicResult.Items) |->
                                  MapPublicItem(publicResult.Items[i])])
    IN  list(Query(t, <<"public-agents">>, "public",
                   DecodeKey(exclusiveStartKey),
                   Min(LimitOrDefault(limit), ServerMaxLimit)))

listPublicAgentsWithFavoritesPaginated(t, userId, exclusiveStartKey, limit) ==
    LET merge(publicResult, agents, favs) ==
            [data |-> [i \in 1..Len(agents) |->
                         [isFavorite |-> Str(agents[i], "agentId") \in favs,
                          isMyAgent |-> Str(agents[i], "createdBy") = userId]
                         @@ agents[i]],
             lastEvaluatedKey |-> EncodeKey(publicResult.LastEvaluatedKey)]
        mark(publicResult, agents) ==
            merge(publicResult, agents, favoritedAgentIds(t, userId, agents))
        list(publicResult) ==
            mark(publicResult, [i \in 1..Len(publicResult.Items) |->
                                  MapPublicItem(publicResult.Items[i])])
    IN  list(Query(t, <<"public-agents">>, "public",
                   DecodeKey(exclusiveStartKey),
                   Min(LimitOrDefault(limit), ServerMaxLimit)))

---------------------------------------------------------------------------
(* Service layer *)

\* getUserEmail: the e-mail attribute the identity provider holds for the user
getUserEmail(userId) == userId \o "@example.com"

\* x || y on strings: the empty string is falsy
OrElse(x, y) == IF x = <<>> THEN y ELSE x

convertToAgentConfiguration(agent) ==
    [mcpServers |-> IF "mcpServers" \in DOMAIN agent THEN agent.mcpServers ELSE <<>>,
     codeExecutionEnabled |-> Truthy(agent, "codeExecutionEnabled"),
     isPublic |-> Truthy(agent, "isPublic"),
     tags |-> IF "tags" \in DOMAIN agent THEN agent.tags ELSE <<>>,
     starCount |-> IF "starCount" \in DOMAIN agent THEN agent.starCount ELSE 0,
     createdBy |-> IF "id" \in DOMAIN agent THEN agent.id[2] ELSE "Unknown",
     isFavorite |-> Truthy(agent, "isFavorite")]
    @@ Pick(agent, {"agentId", "name", "description", "systemPrompt", "modelId",
                    "createdByEmail", "isMyAgent"})

Failure(t, error, message) ==
    [t |-> t, threw |-> TRUE, error |-> error, message |-> message, out |-> Null]
Success(t, out) ==
    [t |-> t, threw |-> FALSE, error |-> "", message |-> <<>>, out |-> out]

\* the catch blocks of the service: a repository failure, told apart by its text
translateRepositoryError(t, message, action) ==
    IF Includes(message, <<"Access", "denied">>)
    THEN Failure(t, "ForbiddenError",
                 <<"You", "do", "not", "have", "permission", "to", action,
                   "this", "agent">>)
    ELSE IF Includes(message, <<"Agent", "not", "found">>)
    THEN Failure(t, "NotFoundError", <<"Agent", "not", "found">>)
    ELSE Failure(t, "Error", message)

service_createAgent(t, userId, request, agentId) ==
    LET reply(r) == Success(r.t, convertToAgentConfiguration(r.out))
    IN  reply(createAgent(t, userId,
                [name |-> Trim(request.name),
                 description |-> IF "description" \in DOMAIN request
                                 THEN Trim(request.description) ELSE <<>>,
                 systemPrompt |-> Trim(request.systemPrompt),
                 mcpServers |-> IF "mcpServers" \in DOMAIN request
                                THEN request.mcpServers ELSE <<>>,
                 modelId |-> request.modelId,
                 codeExecutionEnabled |-> Truthy(request, "codeExecutionEnabled"),
                 isPublic |-> Truthy(request, "isPublic"),
                 tags |-> IF "tags" \in DOMAIN request
                          THEN TrimTags(request.tags) ELSE <<>>,
                 createdByEmail |-> getUserEmail(userId)],
                agentId))

service_getAgent(t, userId, agentId) ==
    LET reply(agent) ==
            IF agent = Null
            THEN Failure(t, "NotFoundError", <<"Agent", "not", "found">>)
            ELSE Success(t, convertToAgentConfiguration(agent))
    IN  reply(getAgent(t, userId, agentId))

service_updateAgent(t, userId, agentId, request) ==
    LET content(existingAgent) ==
              [name |-> IF "name" \in DOMAIN request
                        THEN OrElse(Trim(request.name), existingAgent.name)
                        ELSE existingAgent.name,
               description |-> IF "description" \in DOMAIN request
                               THEN OrElse(Trim(request.description),
                                           existingAgent.description)
                               ELSE existingAgent.description,
               systemPrompt |-> IF "systemPrompt" \in DOMAIN request
                                THEN OrElse(Trim(request.systemPrompt),
                                            existingAgent.systemPrompt)
                                ELSE existingAgent.systemPrompt,
               mcpServers |-> IF "mcpServers" \in DOMAIN request
                              THEN request.mcpServers ELSE existingAgent.mcpServers,
               modelId |-> IF "modelId" \in DOMAIN request /\ request.modelId # ""
                           THEN request.modelId ELSE existingAgent.modelId,
               codeExecutionEnabled |->
                   IF "codeExecutionEnabled" \in DOMAIN request
                   THEN request.codeExecutionEnabled
                   ELSE Truthy(existingAgent, "codeExecutionEnabled"),
               tags |-> IF "tags" \in DOMAIN request
                        THEN TrimTags(request.tags) ELSE existingAgent.tags,
               isPublic |-> IF "isPublic" \in DOMAIN request
                            THEN request.isPublic
                            ELSE Truthy(existingAgent, "isPublic"),
               createdByEmail |-> IF "createdByEmail" \in DOMAIN request
                                  THEN request.createdByEmail
                                  ELSE getUserEmail(userId)]
        reply(r, agent) ==
            IF agent = Null
            THEN Failure(r.t, "NotFoundError",
                         <<"Agent", "not", "found", "after", "update">>)
            ELSE Success(r.t, convertToAgentConfiguration(agent))
        reread(r) ==
            IF r.threw THEN translateRepositoryError(t, r.message, "update")
            ELSE reply(r, getAgent(r.t, userId, agentId))
        update(existingAgent) ==
            IF existingAgent = Null
            THEN Failure(t, "NotFoundError", <<"Agent", "not", "found">>)
            ELSE reread(updateAgent(t, userId, agentId, content(existingAgent)))
    IN  update(getAgent(t, userId, agentId))

service_deleteAgent(t, userId, agentId) ==
    LET reply(r) ==
            IF r.threw THEN translateRepositoryError(t, r.message, "delete")
            ELSE Success(r.t, Null)
    IN  IF getAgent(t, userId, agentId) = Null
        THEN Failure(t, "NotFoundError", <<"Agent", "not", "found">>)
        ELSE reply(deleteAgent(t, userId, agentId))

service_listFavoriteAgents(t, userId, limit, nextToken) ==
    LET reply(result) ==
            [threw |-> result.threw,
             agents |-> [i \in 1..Len(result.data) |->
                           [isFavorite |-> TRUE,
                            isMyAgent |-> Truthy(result.data[i], "isMyAgent")]
                           @@ convertToAgentConfiguration(result.data[i])],
             nextToken |-> result.lastEvaluatedKey,
             type |-> "favorites"]
    IN  reply(listFavoriteAgents(t, userId, nextToken, limit))

service_listPublicAgents(t, userId, limit, nextToken) ==
    LET reply(result) ==
            [agents |-> [i \in 1..Len(result.data) |->
                           convertToAgentConfiguration(result.data[i])],
             nextToken |-> result.lastEvaluatedKey,
             type |-> "public"]
    IN  reply(listPublicAgentsWithFavoritesPaginated(t, userId, nextToken, limit))

service_listUserAgents(t, userId, limit, nextToken) ==
    LET reply(result) ==
            [agents |-> [i \in 1..Len(result.data) |->
                           convertToAgentConfiguration(result.data[i])],
             nextToken |-> result.lastEvaluatedKey,
             type |-> "my"]
    IN  reply(listAgentsWithFavorites(t, userId, nextToken, limit))

service_toggleAgentFavorite(t, userId, agentId) ==
    LET reply(r) ==
            IF r.threw THEN Failure(t, "Error", r.message)
            ELSE Success(r.t, [isFavorite |-> r.isFavorite])
    IN  reply(toggleFavorite(t, userId, agentId))

\* mutant: the clone inherits the source's visibility
service_cloneAgent_KeepsVisibility(t, userId, request, agentId) ==
    LET reply(r) ==
            Success(r.t, Pick(r.out, {"agentId", "name", "description",
                                      "systemPrompt", "modelId", "mcpServers",
                                      "codeExecutionEnabled", "tags", "isPublic"}))
        clone(sourceAgent) ==
            IF sourceAgent = Null
            THEN Failure(t, "NotFoundError", <<"Source", "agent", "not", "found">>)
            ELSE IF ~Truthy(sourceAgent, "isPublic") /\ ~sourceAgent.isMyAgent
            THEN Failure(t, "UnauthorizedError",
                         <<"Agent", "is", "not", "public", "and", "you", "do", "not",
                           "own", "it">>)
            ELSE reply(createAgent(t, userId,
                   [name |-> IF "name" \in DOMAIN request /\ request.name # <<>>
                             THEN request.name
                             ELSE sourceAgent.name \o <<" ", "(Cloned)">>,
                    description |-> sourceAgent.description,
                    systemPrompt |-> sourceAgent.systemPrompt,
                    modelId |-> sourceAgent.modelId,
                    mcpServers |-> sourceAgent.mcpServers,
                    codeExecutionEnabled |-> Truthy(sourceAgent, "codeExecutionEnabled"),
                    tags |-> sourceAgent.tags,
                    isPublic |-> Truthy(sourceAgent, "isPublic")],
                   agentId))
    IN  clone(getAgent(t, userId, request.sourceAgentId))

service_cloneAgent(t, userId, request, agentId) ==
    LET reply(r) ==
            Success(r.t, Pick(r.out, {"agentId", "name", "description",
                                      "systemPrompt", "modelId", "mcpServers",
                                      "codeExecutionEnabled", "tags", "isPublic"}))
        clone(sourceAgent) ==
            IF sourceAgent = Null
            THEN Failure(t, "NotFoundError", <<"Source", "agent", "not", "found">>)
            ELSE IF ~Truthy(sourceAgent, "isPublic") /\ ~sourceAgent.isMyAgent
            THEN Failure(t, "UnauthorizedError",
                         <<"Agent", "is", "not", "public", "and", "you", "do", "not",
                           "own", "it">>)
            ELSE reply(createAgent(t, userId,
                   [name |-> IF "name" \in DOMAIN request /\ request.name # <<>>
                             THEN request.name
                             ELSE sourceAgent.name \o <<" ", "(Cloned)">>,
                    description |-> sourceAgent.description,
                    systemPrompt |-> sourceAgent.systemPrompt,
                    modelId |-> sourceAgent.modelId,
                    mcpServers |-> sourceAgent.mcpServers,
                    codeExecutionEnabled |-> Truthy(sourceAgent, "codeExecutionEnabled"),
                    tags |-> sourceAgent.tags,
                    isPublic |-> FALSE],
                   agentId))
    IN  clone(getAgent(t, userId, request.sourceAgentId))

---------------------------------------------------------------------------
(* Requests *)

Request1(isPublic) ==
    [name |-> <<"Helper">>,
     systemPrompt |-> <<"Be", " ", "concise">>,
     modelId |-> "m1",
     mcpServers |-> <<>>,
     codeExecutionEnabled |-> FALSE,
     tags |-> <<>>,
     isPublic |-> isPublic]

Request2(isPublic) ==
    [name |-> <<" ", "Other", " ">>,
     description |-> <<"desc">>,
     systemPrompt |-> <<"Be", " ", "verbose", " ">>,
     modelId |-> "m2",
     mcpServers |-> <<"time">>,
     codeExecutionEnabled |-> TRUE,
     tags |-> << <<"t1">>, <<" ">> >>,
     isPublic |-> isPublic]

\* bodies that pass CreateAgentRequestSchema (description is optional)
CreateRequests == {Request1(FALSE), Request2(TRUE)}
\* bodies that pass UpdateAgentRequestSchema (description is required)
UpdateRequests == {Request1(TRUE) @@ [description |-> <<>>], Request2(FALSE)}
\* bodies that pass CloneAgentRequestSchema (name is optional)
CloneRequests ==
    {[sourceAgentId |-> a] : a \in AgentIds}
    \cup {[sourceAgentId |-> a, name |-> <<"Copy">>] : a \in AgentIds}

Limits == {NoLimit} \cup 1..MaxLimit
\* continuation tokens: none, or the key of a record of the listed partition
Tokens(t, pk, prefix) ==
    {NoToken} \cup {EncodeKey(k) : k \in {x \in DOMAIN t : x.id = pk /\ x.dataType[1] = prefix}}

---------------------------------------------------------------------------
(* History *)

Created == DOMAIN hist
OwnerOf(agentId) == hist[agentId].owner

\* the owner record of a created agent, when it is still in the store
HasOwnerRecord(t, agentId) ==
    agentId \in Created /\ OwnerKey(OwnerOf(agentId), agentId) \in DOMAIN t
OwnerRecord(t, agentId) == t[OwnerKey(OwnerOf(agentId), agentId)]

StarOf(t, key) ==
    IF key \in DOMAIN t /\ "starCount" \in DOMAIN t[key] THEN t[key].starCount ELSE -1

\* what a toggle may change: the caller's favorite record and the two counters
Snapshot(t, userId, agentId) ==
    [fav |-> FavoriteKey(userId, agentId) \in DOMAIN t,
     owner |-> IF agentId \in Created
               THEN StarOf(t, OwnerKey(OwnerOf(agentId), agentId)) ELSE -1,
     pub |-> StarOf(t, PublicKey(agentId))]

\* the caller owns the agent, or the agent is public
Accessible(t, userId, agentId) ==
    /\ HasOwnerRecord(t, agentId)
    /\ OwnerOf(agentId) = userId \/ OwnerRecord(t, agentId).isPublic

---------------------------------------------------------------------------
(* HTTP responses *)

createSuccessResponse(data, statusCode) ==
    [statusCode |-> statusCode, body |-> data]

createErrorResponse(error, statusCode) ==
    [statusCode |-> statusCode, body |-> [error |-> error]]

\* handleError: the response is chosen by the class of the error thrown;
\* an error of no known class is answered 500 with a fixed text
handleError(error, message) ==
    IF error = "ValidationError" THEN createErrorResponse(message, 400)
    ELSE IF error = "NotFoundError" THEN createErrorResponse(message, 404)
    ELSE IF error = "UnauthorizedError" THEN createErrorResponse(message, 403)
    ELSE IF error = "ForbiddenError" THEN createErrorResponse(message, 403)
    ELSE IF error = "ConflictError" THEN createErrorResponse(message, 409)
    ELSE createErrorResponse(<<"Internal", "server", "error">>, 500)

\* the status a handler answers with: its success status, or handleError's
statusOf(r, success) ==
    IF r.threw THEN handleError(r.error, r.message).statusCode
    ELSE createSuccessResponse(r.out, success).statusCode

---------------------------------------------------------------------------
(* Handlers: one action per request, run to completion *)

Init ==
    /\ table = <<>>
    /\ nextId = 1
    /\ opCount = 0
    /\ lastOp = [op |-> "init"]
    /\ hist = <<>>
    /\ swr = [l \in Lists |-> [data |-> Null, error |-> FALSE, validating |-> FALSE]]
    /\ inflight = Null
    /\ clientOp = [op |-> "init"]
    /\ conc = Null

\* one more invocation, of MaxOps; no repository call runs beside it
Step == opCount < MaxOps /\ opCount' = opCount + 1 /\ UNCHANGED conc

handleCreateAgent(userId, request) ==
    /\ Step
    /\ nextId <= MaxAgents
    /\ LET agentId == AgentIdOf(nextId)
           respond(r) ==
               /\ table' = r.t
               /\ lastOp' = [op |-> "createAgent", userId |-> userId,
                             agentId |-> agentId, request |-> request,
                             ok |-> ~r.threw, error |-> r.error, out |-> r.out,
                             statusCode |-> statusOf(r, 201)]
       IN  /\ respond(service_createAgent(table, userId, request, agentId))
           /\ nextId' = nextId + 1
           /\ hist' = (agentId :> [owner |-> userId,
                                   everPublic |-> request.isPublic,
                                   unpublished |-> FALSE,
                                   deleted |-> FALSE]) @@ hist

handleGetAgent(userId, agentId) ==
    /\ Step
    /\ LET respond(r, repo) ==
               lastOp' = [op |-> "getAgent", userId |-> userId, agentId |-> agentId,
                          ok |-> ~r.threw, error |-> r.error, out |-> r.out,
                          statusCode |-> statusOf(r, 200), repo |-> repo]
       IN  respond(service_getAgent(table, userId, agentId),
                   getAgent(table, userId, agentId))
    /\ UNCHANGED <<table, nextId, hist>>

handleUpdateAgent(userId, agentId, request) ==
    /\ Step
    /\ LET respond(r, wasPublic) ==
               /\ table' = r.t
               /\ hist' = IF r.threw \/ agentId \notin Created THEN hist
                          ELSE [hist EXCEPT
                                  ![agentId].everPublic = @ \/ request.isPublic,
                                  ![agentId].unpublished =
                                      IF request.isPublic THEN FALSE
                                      ELSE IF wasPublic THEN TRUE ELSE @]
               /\ lastOp' = [op |-> "updateAgent", userId |-> userId,
                             agentId |-> agentId, request |-> request,
                             ok |-> ~r.threw, error |-> r.error, out |-> r.out,
                             statusCode |-> statusOf(r, 200),
                             wasPublic |-> wasPublic]
       IN  respond(service_updateAgent(table, userId, agentId, request),
                   HasOwnerRecord(table, agentId)
                   /\ OwnerRecord(table, agentId).isPublic)
    /\ UNCHANGED nextId

handleDeleteAgent(userId, agentId) ==
    /\ Step
    /\ LET respond(r) ==
               /\ table' = r.t
               /\ hist' = IF r.threw \/ agentId \notin Created THEN hist
                          ELSE [hist EXCEPT ![agentId].deleted = TRUE]
               /\ lastOp' = [op |-> "deleteAgent", userId |-> userId,
                             agentId |-> agentId,
                             ok |-> ~r.threw, error |-> r.error, out |-> r.out,
                             statusCode |-> statusOf(r, 200)]
       IN  respond(service_deleteAgent(table, userId, agentId))
    /\ UNCHANGED nextId

handleToggleAgentFavorite(userId, agentId) ==
    /\ Step
    /\ LET again == /\ lastOp.op = "toggleFavorite"
                    /\ lastOp.ok
                    /\ lastOp.userId = userId
                    /\ lastOp.agentId = agentId
           respond(r) ==
               /\ table' = r.t
               /\ lastOp' = [op |-> "toggleFavorite", userId |-> userId,
                             agentId |-> agentId,
                             ok |-> ~r.threw, error |-> r.error, out |-> r.out,
                             statusCode |-> statusOf(r, 200),
                             pre |-> Snapshot(table, userId, agentId),
                             accessible |-> Accessible(table, userId, agentId),
                             prev |-> IF again
                                      THEN <<[out |-> lastOp.out, pre |-> lastOp.pre,
                                              accessible |-> lastOp.accessible]>>
                                      ELSE <<>>]
       IN  respond(service_toggleAgentFavorite(table, userId, agentId))
    /\ UNCHANGED <<nextId, hist>>

handleCloneAgent(userId, request) ==
    /\ Step
    /\ LET agentId == AgentIdOf(nextId)
           respond(r) ==
               /\ r.threw \/ nextId <= MaxAgents
               /\ table' = r.t
               /\ nextId' = IF r.threw THEN nextId ELSE nextId + 1
               /\ hist' = IF r.threw THEN hist
                          ELSE (agentId :> [owner |-> userId,
                                            everPublic |-> FALSE,
                                            unpublished |-> FALSE,
                                            deleted |-> FALSE]) @@ hist
               /\ lastOp' = [op |-> "cloneAgent", userId |-> userId,
                             agentId |-> request.sourceAgentId, request |-> request,
                             ok |-> ~r.threw, error |-> r.error, out |-> r.out,
                             statusCode |-> statusOf(r, 200)]
       IN  respond(service_cloneAgent(table, userId, request, agentId))

handleListUserAgents(userId, exclusiveStartKey, limit) ==
    /\ Step
    /\ lastOp' = [op |-> "listUserAgents", userId |-> userId,
                  exclusiveStartKey |-> exclusiveStartKey, limit |-> limit,
                  ok |-> TRUE, error |-> "", statusCode |-> 200,
                  out |-> service_listUserAgents(table, userId, limit,
                                                 exclusiveStartKey)]
    /\ UNCHANGED <<table, nextId, hist>>

handleListPublicAgents(userId, exclusiveStartKey, limit) ==
    /\ Step
    /\ lastOp' = [op |-> "listPublicAgents", userId |-> userId,
                  exclusiveStartKey |-> exclusiveStartKey, limit |-> limit,
                  ok |-> TRUE, error |-> "", statusCode |-> 200,
                  out |-> service_listPublicAgents(table, userId, limit,
                                                   exclusiveStartKey)]
    /\ UNCHANGED <<table, nextId, hist>>

handleListFavoriteAgents(userId, exclusiveStartKey, limit) ==
    /\ Step
    /\ LET respond(repo, out) ==
               lastOp' = [op |-> "listFavoriteAgents", userId |-> userId,
                          exclusiveStartKey |-> exclusiveStartKey, limit |-> limit,
                          ok |-> ~repo.threw,
                          error |-> IF repo.threw THEN "Error" ELSE "",
                          statusCode |-> IF repo.threw
                                         THEN handleError("Error", <<>>).statusCode
                                         ELSE 200,
                          repo |-> repo,
                          out |-> out]
       IN  respond(listFavoriteAgents(table, userId, exclusiveStartKey, limit),
                   service_listFavoriteAgents(table, userId, limit,
                                              exclusiveStartKey))
    /\ UNCHANGED <<table, nextId, hist>>

Next ==
    \/ \E u \in Users, r \in CreateRequests :
          handleCreateAgent(u, r) /\ UNCHANGED clientVars
    \/ \E u \in Users, a \in AgentIds :
          handleGetAgent(u, a) /\ UNCHANGED clientVars
    \/ \E u \in Users, a \in AgentIds, r \in UpdateRequests :
          handleUpdateAgent(u, a, r) /\ UNCHANGED clientVars
    \/ \E u \in Users, a \in AgentIds :
          handleDeleteAgent(u, a) /\ UNCHANGED clientVars
    \/ \E u \in Users, a \in AgentIds :
          handleToggleAgentFavorite(u, a) /\ UNCHANGED clientVars
    \/ \E u \in Users, r \in CloneRequests :
          handleCloneAgent(u, r) /\ UNCHANGED clientVars
    \/ \E u \in Users, l \in Limits :
          \E k \in Tokens(table, <<"agent", u>>, "agent") :
              handleListUserAgents(u, k, l) /\ UNCHANGED clientVars
    \/ \E u \in Users, l \in Limits :
          \E k \in Tokens(table, <<"public-agents">>, "public") :
              handleListPublicAgents(u, k, l) /\ UNCHANGED clientVars
    \/ \E u \in Users, l \in Limits :
          \E k \in Tokens(table, <<"agent", u>>, "favorite") :
              handleListFavoriteAgents(u, k, l) /\ UNCHANGED clientVars

Spec == Init /\ [][Next]_vars

----------------------------------------------------------------------------
(* HTTP entry point: the Lambda handler, the router and input validation *)

\* a path segment or id that is not a UUID
NotUuid == "my-agent"
\* the UUIDs of the model are the ids the store can issue
IsUuid(s) == s \in AgentIds

\* request bodies: null, the empty string, text that is not JSON, JSON text
EmptyBody == [len |-> 0]
NonJsonBody == [len |-> 1, json |-> FALSE]
JsonBody(data) == [len |-> 1, json |-> TRUE, data |-> data]

Invalid(error) == [isValid |-> FALSE, error |-> error]
Valid(data) == [isValid |-> TRUE, data |-> data]

\* RequestBodySchema (a string of length >= 1), then JSON.parse
validateAndParseRequestBody(body) ==
    IF body = Null \/ body.len = 0
    THEN Invalid(<<"Request", "body", "is", "required">>)
    ELSE IF ~body.json
    THEN Invalid(<<"Invalid", "JSON", "in", "request", "body">>)
    ELSE Valid(body.data)

validateUserId(userId) ==
    IF userId # "" THEN Valid(userId) ELSE Invalid(<<"User", "ID", "is", "required">>)

validateAgentId(agentId) ==
    IF IsUuid(agentId) THEN Valid(agentId)
    ELSE Invalid(<<"Invalid", "agent", "ID", "format">>)

Has(request, field) == field \in DOMAIN request

\* name, systemPrompt and modelId are required and non-empty; the optional
\* fields take their defaults
validateCreateAgentRequest(request) ==
    IF ~Has(request, "name") \/ request.name = <<>>
    THEN Invalid(<<"Agent", "name", "is", "required">>)
    ELSE IF ~Has(request, "systemPrompt") \/ request.systemPrompt = <<>>
    THEN Invalid(<<"System", "prompt", "is", "required">>)
    ELSE IF ~Has(request, "modelId") \/ request.modelId = ""
    THEN Invalid(<<"Model", "ID", "is", "required">>)
    ELSE Valid(request @@ [mcpServers |-> <<>>, codeExecutionEnabled |-> FALSE,
                           isPublic |-> FALSE, tags |-> <<>>])

\* as for a creation, and agentId (a UUID), description and mcpServers are
\* required too
validateUpdateAgentRequest(request) ==
    IF ~Has(request, "agentId") \/ ~IsUuid(request.agentId)
    THEN Invalid(<<"Invalid", "agent", "ID", "format">>)
    ELSE IF ~Has(request, "name") \/ request.name = <<>>
    THEN Invalid(<<"Agent", "name", "is", "required">>)
    ELSE IF ~Has(request, "description")
    THEN Invalid(<<"Required">>)
    ELSE IF ~Has(request, "systemPrompt") \/ request.systemPrompt = <<>>
    THEN Invalid(<<"System", "prompt", "is", "required">>)
    ELSE IF ~Has(request, "modelId") \/ request.modelId = ""
    THEN Invalid(<<"Model", "ID", "is", "required">>)
    ELSE IF ~Has(request, "mcpServers")
    THEN Invalid(<<"Required">>)
    ELSE Valid(request @@ [codeExecutionEnabled |-> FALSE, isPublic |-> FALSE,
                           tags |-> <<>>])

validateCloneAgentRequest(request) ==
    IF ~Has(request, "sourceAgentId") \/ ~IsUuid(request.sourceAgentId)
    THEN Invalid(<<"Invalid", "source", "agent", "ID", "format">>)
    ELSE Valid(request)

\* the cognito:username claim; an absent or empty claim is an error that is
\* not one of the classes handleError knows
getUserIdFromEvent(event) ==
    IF event.username = ""
    THEN [threw |-> TRUE, error |-> "Error",
          message |-> <<"User", "not", "authenticated">>]
    ELSE [threw |-> FALSE, userId |-> event.username]

createNotFoundResponse(message) == createErrorResponse(message, 404)

\* the response of a request that ends before the service is called;
\* handledBy is the endpoint handler the router passed it to, "" if none
respond(event, response, handledBy) ==
    /\ Step
    /\ lastOp' = [op |-> "handler", event |-> event, ok |-> FALSE,
                  statusCode |-> response.statusCode, body |-> response.body,
                  handledBy |-> handledBy]
    /\ UNCHANGED <<table, nextId, hist>>

\* the input validation that opens every endpoint handler: the first check
\* that fails is thrown as a ValidationError, else the handler proceeds
validated(event, handledBy, checks, proceed) ==
    IF \E i \in DOMAIN checks : ~checks[i].isValid
    THEN LET first == CHOOSE i \in DOMAIN checks :
                          /\ ~checks[i].isValid
                          /\ \A j \in 1..(i - 1) : checks[j].isValid
         IN  respond(event, handleError("ValidationError", checks[first].error),
                     handledBy)
    ELSE proceed

\* the body of a POST or PUT is parsed by the router before the handler runs
parsed(event, parseResult, proceed) ==
    IF ~parseResult.isValid
    THEN respond(event, handleError("Error", parseResult.error), "")
    ELSE proceed

routeCreate(event, userId, request) ==
    LET call(v) == validated(event, "handleCreateAgent",
                             <<validateUserId(userId), v>>,
                             handleCreateAgent(userId, v.data))
    IN  call(validateCreateAgentRequest(request))

routeUpdate(event, userId, agentId, request) ==
    LET call(v) == validated(event, "handleUpdateAgent",
                             <<validateUserId(userId), validateAgentId(agentId), v>>,
                             handleUpdateAgent(userId, agentId, v.data))
    IN  call(validateUpdateAgentRequest(request))

routeClone(event, userId, request) ==
    LET call(v) == validated(event, "handleCloneAgent",
                             <<validateUserId(userId), v>>,
                             handleCloneAgent(userId, v.data))
    IN  call(validateCloneAgentRequest(request))

routeAgent(event, userId, agentId, pathParts) ==
    IF Len(pathParts) = 1 /\ event.httpMethod = "GET"
    THEN validated(event, "handleGetAgent",
                   <<validateUserId(userId), validateAgentId(agentId)>>,
                   handleGetAgent(userId, agentId))
    ELSE IF Len(pathParts) = 1 /\ event.httpMethod = "PUT"
    THEN LET go(p) == parsed(event, p, routeUpdate(event, userId, agentId, p.data))
         IN  go(validateAndParseRequestBody(event.body))
    ELSE IF Len(pathParts) = 1 /\ event.httpMethod = "DELETE"
    THEN validated(event, "handleDeleteAgent",
                   <<validateUserId(userId), validateAgentId(agentId)>>,
                   handleDeleteAgent(userId, agentId))
    ELSE IF Len(pathParts) > 1 /\ pathParts[2] = "favorite"
            /\ event.httpMethod = "POST"
    THEN validated(event, "handleToggleAgentFavorite",
                   <<validateUserId(userId), validateAgentId(agentId)>>,
                   handleToggleAgentFavorite(userId, agentId))
    ELSE respond(event, createNotFoundResponse(<<"Not", "found">>), "")

routeRequest(event, userId) ==
    IF event.resource = "/agents" /\ event.httpMethod = "POST"
    THEN LET go(p) == parsed(event, p, routeCreate(event, userId, p.data))
         IN  go(validateAndParseRequestBody(event.body))
    ELSE IF event.resource = "/agents" /\ event.httpMethod = "GET"
    THEN validated(event, "handleListUserAgents", <<validateUserId(userId)>>,
                   handleListUserAgents(userId, NoToken, NoLimit))
    ELSE IF event.resource = "/agents/{proxy+}"
    THEN LET pathParts == event.proxy
             agentId == pathParts[1]
         IN  IF agentId = ""
             THEN respond(event,
                          createNotFoundResponse(<<"Agent", "ID", "is", "required">>),
                          "")
             ELSE IF agentId = "my" /\ event.httpMethod = "GET"
             THEN validated(event, "handleListUserAgents",
                            <<validateUserId(userId)>>,
                            handleListUserAgents(userId, NoToken, NoLimit))
             ELSE IF agentId = "public" /\ event.httpMethod = "GET"
             THEN validated(event, "handleListPublicAgents",
                            <<validateUserId(userId)>>,
                            handleListPublicAgents(userId, NoToken, NoLimit))
             ELSE IF agentId = "favorites" /\ event.httpMethod = "GET"
             THEN validated(event, "handleListFavoriteAgents",
                            <<validateUserId(userId)>>,
                            handleListFavoriteAgents(userId, NoToken, NoLimit))
             ELSE IF agentId \in {"clone", "import"} /\ event.httpMethod = "POST"
             THEN LET go(p) == parsed(event, p, routeClone(event, userId, p.data))
                  IN  go(validateAndParseRequestBody(event.body))
             ELSE routeAgent(event, userId, agentId, pathParts)
    ELSE respond(event, createNotFoundResponse(<<"Not", "found">>), "")

\* the Lambda entry point
handler(event) ==
    IF event.httpMethod = "OPTIONS"
    THEN respond(event, createSuccessResponse(<<>>, 200), "")
    ELSE LET go(id) ==
                 IF id.threw
                 THEN respond(event, handleError(id.error, id.message), "")
                 ELSE routeRequest(event, id.userId)
         IN  go(getUserIdFromEvent(event))

\* the events the entry point is driven with: a caller or none, every
\* method on every kind of path, and every kind of body on a POST or PUT
Callers == {"u1", ""}
Paths ==
    {[resource |-> "/agents", proxy |-> <<>>]}
    \cup {[resource |-> "/agents/{proxy+}", proxy |-> p] :
            p \in {<<"">>, <<"favorites">>, <<"clone">>,
                   <<AgentIdOf(1)>>, <<NotUuid>>, <<AgentIdOf(1), "favorite">>}}
Bodies ==
    {Null, EmptyBody, NonJsonBody,
     JsonBody([name |-> <<"Helper">>]),
     JsonBody(Request2(TRUE)),
     JsonBody(Request2(FALSE) @@ [agentId |-> AgentIdOf(1)]),
     JsonBody([sourceAgentId |-> AgentIdOf(1)])}
Event(m, p, u, b) ==
    [httpMethod |-> m, resource |-> p.resource, proxy |-> p.proxy,
     username |-> u, body |-> b]
Events ==
    {Event(m, p, u, Null) : m \in {"OPTIONS", "GET", "DELETE"}, p \in Paths,
                            u \in Callers}
    \cup {Event(m, p, "u1", b) : m \in {"POST", "PUT"}, p \in Paths, b \in Bodies}
    \cup {Event(m, p, "", Null) : m \in {"POST", "PUT"}, p \in Paths}

HttpNext ==
    \E event \in Events : handler(event) /\ UNCHANGED clientVars

HttpSpec == Init /\ [][HttpNext]_vars

----------------------------------------------------------------------------
(* Browser: the list hook over three paginated caches *)

\* the signed-in user of the browser
Me == "u1"

\* the data of a cache is undefined (Null) until its first fetch, then the
\* array of the pages fetched; every list asks for pages of 12
Raw(pages) == [pages |-> pages]
NewPage(agents, type) == [agents |-> agents, nextToken |-> NoToken, type |-> type]

RECURSIVE flatMapAgents(_)
flatMapAgents(pages) ==
    IF pages = <<>> THEN <<>> ELSE Head(pages).agents \o flatMapAgents(Tail(pages))

\* myAgents, favoriteAgents, publicAgents: the items of all loaded pages
AgentsOf(agentsRaw) ==
    IF agentsRaw = Null THEN <<>> ELSE flatMapAgents(agentsRaw.pages)

IndexOfAgent(agents, agentId) ==
    IF \E i \in DOMAIN agents : agents[i].agentId = agentId
    THEN CHOOSE i \in DOMAIN agents :
             /\ agents[i].agentId = agentId
             /\ \A j \in 1..(i - 1) : agents[j].agentId # agentId
    ELSE 0

\* pages, then items; the first match wins; {page: 0, idx: 0} is "none"
findAgentIndex(agentsRaw, agentId) ==
    IF agentsRaw = Null
       \/ \A p \in DOMAIN agentsRaw.pages :
              IndexOfAgent(agentsRaw.pages[p].agents, agentId) = 0
    THEN [page |-> 0, idx |-> 0]
    ELSE LET at(p) == [page |-> p,
                       idx |-> IndexOfAgent(agentsRaw.pages[p].agents, agentId)]
         IN  at(CHOOSE p \in DOMAIN agentsRaw.pages :
                    /\ IndexOfAgent(agentsRaw.pages[p].agents, agentId) # 0
                    /\ \A q \in 1..(p - 1) :
                           IndexOfAgent(agentsRaw.pages[q].agents, agentId) = 0)

Splice(agents, idx) ==
    [i \in 1..(Len(agents) - 1) |-> IF i < idx THEN agents[i] ELSE agents[i + 1]]

\* the item found is replaced by {...item, ...fields}
patchAgent(agentsRaw, agentId, fields) ==
    LET patch(at) ==
            IF at.page = 0 THEN agentsRaw
            ELSE Raw([agentsRaw.pages EXCEPT
                          ![at.page].agents[at.idx] = fields @@ @])
    IN  IF agentsRaw = Null THEN Null
        ELSE patch(findAgentIndex(agentsRaw, agentId))

updateAgentInList(agentsRaw, agentId, params) ==
    patchAgent(agentsRaw, agentId, params)

updateFavoriteStatus(agentsRaw, agentId, newFavoriteStatus) ==
    patchAgent(agentsRaw, agentId, [isFavorite |-> newFavoriteStatus])

removeAgentFromList(agentsRaw, agentId) ==
    LET remove(at) ==
            IF at.page = 0 THEN agentsRaw
            ELSE Raw([agentsRaw.pages EXCEPT
                          ![at.page].agents = Splice(@, at.idx)])
    IN  IF agentsRaw = Null THEN Null
        ELSE remove(findAgentIndex(agentsRaw, agentId))

\* unshift into the first page, or a first page of its own
insertAtHead(agentsRaw, agent, type) ==
    IF agentsRaw = Null \/ agentsRaw.pages = <<>>
    THEN Raw(<<NewPage(<<agent>>, type)>>)
    ELSE Raw([agentsRaw.pages EXCEPT ![1].agents = <<agent>> \o @])

\* mutant: the agent goes in at the head without a look at the list
toggleInFavorites_NoExistsCheck(favoriteAgentsRaw, agentId, newFavoriteStatus, found, agent) ==
    IF newFavoriteStatus /\ found
    THEN insertAtHead(favoriteAgentsRaw, [isFavorite |-> TRUE] @@ agent,
                      "favorites")
    ELSE removeAgentFromList(favoriteAgentsRaw, agentId)

\* the favorites list of an optimistic toggle: the agent goes in at the
\* head unless it is there already, or it is taken out
toggleInFavorites(favoriteAgentsRaw, agentId, newFavoriteStatus, found, agent) ==
    IF newFavoriteStatus /\ found
    THEN IF findAgentIndex(favoriteAgentsRaw, agentId).page # 0
         THEN favoriteAgentsRaw
         ELSE insertAtHead(favoriteAgentsRaw, [isFavorite |-> TRUE] @@ agent,
                           "favorites")
    ELSE removeAgentFromList(favoriteAgentsRaw, agentId)

\* mutate(data, {revalidate: false}) and mutate()
mutateData(s, list, data) == [s EXCEPT ![list].data = data]
mutateRevalidate(s, lists) ==
    [l \in Lists |-> IF l \in lists THEN [s[l] EXCEPT !.validating = TRUE] ELSE s[l]]

\* a fetch that fails: the fetcher of the owned list catches the error and
\* returns an empty page in its place, the other two fetchers throw and the
\* cache keeps its data next to the error
fetcherFailed(cache, list) ==
    IF list = "my"
    THEN [data |-> Raw(<<NewPage(<<>>, "my")>>), error |-> FALSE,
          validating |-> FALSE]
    ELSE [cache EXCEPT !.error = TRUE, !.validating = FALSE]

fetcherLoaded(response) ==
    [data |-> Raw(<<response>>), error |-> FALSE, validating |-> FALSE]

\* the request did not reach the server
networkError ==
    /\ Step
    /\ UNCHANGED <<table, nextId, lastOp, hist>>

listRequest(list) ==
    IF list = "my" THEN handleListUserAgents(Me, NoToken, DefaultLimit)
    ELSE IF list = "favorites" THEN handleListFavoriteAgents(Me, NoToken, DefaultLimit)
    ELSE handleListPublicAgents(Me, NoToken, DefaultLimit)

\* the fetch of a list that is being (re)validated comes back
revalidate(list, networkOk) ==
    /\ swr[list].validating
    /\ LET done(ok, response) ==
               /\ swr' = [swr EXCEPT ![list] =
                              IF ok THEN fetcherLoaded(response)
                              ELSE fetcherFailed(swr[list], list)]
               /\ clientOp' = [op |-> "revalidate", list |-> list, ok |-> ok,
                               refetched |-> {}, toasts |-> <<>>]
       IN  IF networkOk
           THEN listRequest(list) /\ done(lastOp'.statusCode = 200, lastOp'.out)
           ELSE networkError /\ done(FALSE, Null)
    /\ UNCHANGED inflight

\* refreshMyAgents, refreshFavoriteAgents, refreshPublicAgents
refresh(list) ==
    /\ Step
    /\ swr' = mutateRevalidate(swr, {list})
    /\ clientOp' = [op |-> "refresh", list |-> list, ok |-> TRUE,
                    refetched |-> {list}, toasts |-> <<>>]
    /\ UNCHANGED <<table, nextId, lastOp, hist, inflight>>

\* a mutation up to its await: the optimistic rewrite, then the request
call(op, args, optimistic) ==
    /\ inflight = Null
    /\ Step
    /\ swr' = optimistic
    /\ inflight' = [op |-> op, myAgentsRaw |-> swr["my"].data] @@ args
    /\ clientOp' = [op |-> op, phase |-> "call", ok |-> TRUE, refetched |-> {},
                    toasts |-> <<>>, before |-> swr]
    /\ UNCHANGED <<table, nextId, lastOp, hist>>

\* a mutation after its await: what it writes to the caches, which lists it
\* revalidates, what it toasts
settled(op, ok, agrees, data, refetched, toasts) ==
    /\ swr' = mutateRevalidate(data, refetched)
    /\ inflight' = Null
    /\ clientOp' = [op |-> op, phase |-> "settled", ok |-> ok, agrees |-> agrees,
                    refetched |-> refetched, toasts |-> toasts, before |-> swr]

\* the catch block: the failure toast, and the server's message if it sent one
failureToasts(key, networkOk) ==
    IF networkOk THEN <<key, "response.data.error">> ELSE <<key, "undefined">>

hook_createAgent_call(params) ==
    /\ nextId <= MaxAgents
    /\ call("createAgent", [params |-> params], swr)

hook_createAgent_settle(networkOk) ==
    /\ inflight # Null /\ inflight.op = "createAgent"
    /\ LET then(ok, response) ==
               IF ok
               THEN settled("createAgent", TRUE, TRUE,
                            mutateData(swr, "my",
                                       insertAtHead(inflight.myAgentsRaw,
                                                    response, "my")),
                            {"my"}, <<"agent_created_successfully">>)
               ELSE settled("createAgent", FALSE, FALSE, swr, {"my"},
                            failureToasts("failed_to_create_agent", networkOk))
       IN  IF networkOk
           THEN handleCreateAgent(Me, inflight.params)
                /\ then(lastOp'.statusCode < 400, lastOp'.out)
           ELSE networkError /\ then(FALSE, Null)

hook_updateAgent_call(agentId, params) ==
    call("updateAgent", [agentId |-> agentId, params |-> params],
         [l \in Lists |->
            [swr[l] EXCEPT !.data = updateAgentInList(@, agentId, params)]])

hook_updateAgent_settle(networkOk) ==
    /\ inflight # Null /\ inflight.op = "updateAgent"
    /\ LET then(ok) ==
               IF ok
               THEN settled("updateAgent", TRUE, TRUE, swr, Lists,
                            <<"agent_updated_successfully">>)
               ELSE settled("updateAgent", FALSE, FALSE, swr, Lists,
                            failureToasts("failed_to_update_agent", networkOk))
       IN  IF networkOk
           THEN handleUpdateAgent(Me, inflight.agentId, inflight.params)
                /\ then(lastOp'.statusCode < 400)
           ELSE networkError /\ then(FALSE)

\* after window.confirm
hook_deleteAgent_call(agentId) ==
    call("deleteAgent", [agentId |-> agentId],
         [l \in Lists |->
            [swr[l] EXCEPT !.data = removeAgentFromList(@, agentId)]])

hook_deleteAgent_settle(networkOk) ==
    /\ inflight # Null /\ inflight.op = "deleteAgent"
    /\ LET then(ok) ==
               IF ok
               THEN settled("deleteAgent", TRUE, TRUE, swr, Lists,
                            <<"agent_deleted_successfully">>)
               ELSE settled("deleteAgent", FALSE, FALSE, swr, Lists,
                            failureToasts("failed_to_delete_agent", networkOk))
       IN  IF networkOk
           THEN handleDeleteAgent(Me, inflight.agentId)
                /\ then(lastOp'.statusCode < 400)
           ELSE networkError /\ then(FALSE)

hook_cloneAgent_call(agent) ==
    call("cloneAgent", [agent |-> agent], swr)

hook_cloneAgent_settle(networkOk) ==
    /\ inflight # Null /\ inflight.op = "cloneAgent"
    /\ LET then(ok, response) ==
               IF ok
               THEN settled("cloneAgent", TRUE, TRUE,
                            mutateData(swr, "my",
                                       insertAtHead(inflight.myAgentsRaw,
                                                    response, "my")),
                            {"my"}, <<"agent_cloned_successfully">>)
               ELSE settled("cloneAgent", FALSE, FALSE, swr, {"my"},
                            failureToasts("failed_to_clone_agent", networkOk))
       IN  IF networkOk
           THEN handleCloneAgent(Me, [sourceAgentId |-> inflight.agent.agentId,
                                      name |-> inflight.agent.name
                                               \o <<" ", "(Cloned)">>])
                /\ then(lastOp'.statusCode < 400, lastOp'.out)
           ELSE networkError /\ then(FALSE, Null)

hook_toggleFavorite_call(agentId) ==
    LET optimistic(newFavoriteStatus, found, agent) ==
            call("toggleFavorite",
                 [agentId |-> agentId, newFavoriteStatus |-> newFavoriteStatus],
                 [l \in Lists |->
                    [swr[l] EXCEPT !.data =
                        IF l = "favorites"
                        THEN toggleInFavorites(@, agentId, newFavoriteStatus,
                                               found, agent)
                        ELSE updateFavoriteStatus(@, agentId, newFavoriteStatus)]])
        lookup(allLoadedAgents, idx) ==
            IF idx = 0 THEN optimistic(TRUE, FALSE, Null)
            ELSE optimistic(~Truthy(allLoadedAgents[idx], "isFavorite"), TRUE,
                            allLoadedAgents[idx])
        find(allLoadedAgents) ==
            lookup(allLoadedAgents, IndexOfAgent(allLoadedAgents, agentId))
    IN  find(AgentsOf(swr["my"].data) \o AgentsOf(swr["public"].data)
             \o AgentsOf(swr["favorites"].data))

hook_toggleFavorite_settle(networkOk) ==
    /\ inflight # Null /\ inflight.op = "toggleFavorite"
    /\ LET then(ok, agrees) ==
               IF ok
               THEN settled("toggleFavorite", TRUE, agrees, swr,
                            IF agrees THEN {} ELSE Lists, <<>>)
               ELSE settled("toggleFavorite", FALSE, FALSE, swr, Lists,
                            failureToasts("failed_to_toggle_favorite", networkOk))
       IN  IF networkOk
           THEN handleToggleAgentFavorite(Me, inflight.agentId)
                /\ then(lastOp'.statusCode < 400,
                        /\ lastOp'.statusCode < 400
                        /\ lastOp'.out.isFavorite = inflight.newFavoriteStatus)
           ELSE networkError /\ then(FALSE, FALSE)

\* the browser opens on a store in which its user owns one public agent;
\* mounting the hook starts the first fetch of each list
ClientInit ==
    /\ table = service_createAgent(<<>>, Me, Request2(TRUE), AgentIdOf(1)).t
    /\ nextId = 2
    /\ opCount = 0
    /\ lastOp = [op |-> "init"]
    /\ hist = (AgentIdOf(1) :> [owner |-> Me, everPublic |-> TRUE,
                               unpublished |-> FALSE, deleted |-> FALSE])
    /\ swr = [l \in Lists |-> [data |-> Null, error |-> FALSE, validating |-> TRUE]]
    /\ inflight = Null
    /\ clientOp = [op |-> "init"]
    /\ conc = Null

ClientNext ==
    \/ \E l \in Lists, networkOk \in BOOLEAN : revalidate(l, networkOk)
    \/ \E l \in Lists : refresh(l)
    \/ \E r \in CreateRequests : hook_createAgent_call(r)
    \/ \E networkOk \in BOOLEAN : hook_createAgent_settle(networkOk)
    \/ \E a \in AgentIds, r \in UpdateRequests : hook_updateAgent_call(a, r)
    \/ \E networkOk \in BOOLEAN : hook_updateAgent_settle(networkOk)
    \/ \E a \in AgentIds : hook_deleteAgent_call(a)
    \/ \E networkOk \in BOOLEAN : hook_deleteAgent_settle(networkOk)
    \/ \E l \in Lists : \E i \in DOMAIN AgentsOf(swr[l].data) :
          hook_cloneAgent_call(AgentsOf(swr[l].data)[i])
    \/ \E networkOk \in BOOLEAN : hook_cloneAgent_settle(networkOk)
    \/ \E a \in AgentIds : hook_toggleFavorite_call(a)
    \/ \E networkOk \in BOOLEAN : hook_toggleFavorite_settle(networkOk)

ClientSpec == ClientInit /\ [][ClientNext]_vars

---------------------------------------------------------------------------
(* Concurrent repository calls.  Every handler invocation is a process of  *)
(* its own; what the calls share is the store.  A call is a batched read   *)
(* followed by single-item requests: the requests of one `await` are sent  *)
(* one after the other, those of one Promise.all in any order.             *)

MaxCalls == 3

Owner == "u1"
Fans == {"u2", "u3"}

\* the content the service hands to the repository
Content(isPublic) ==
    [name |-> <<"Other">>,
     description |-> <<"desc">>,
     systemPrompt |-> <<"Be", " ", "verbose">>,
     mcpServers |-> <<"time">>,
     modelId |-> "m2",
     codeExecutionEnabled |-> TRUE,
     isPublic |-> isPublic,
     tags |-> << <<"t1">> >>,
     createdByEmail |-> getUserEmail(Owner)]

\* the single-item requests of the store
PutCommand(item) == [kind |-> "Put", key |-> KeyOf(item), item |-> item]
DeleteCommand(key) == [kind |-> "Delete", key |-> key]
UpdateCommandSet(key, attrs) == [kind |-> "Set", key |-> key, attrs |-> attrs]
UpdateCommandAdd(key, n) == [kind |-> "Add", key |-> key, n |-> n]

send(t, command) ==
    CASE command.kind = "Put" -> PutItem(t, command.item)
      [] command.kind = "Delete" -> DeleteItem(t, command.key)
      [] command.kind = "Set" -> UpdateSet(t, command.key, command.attrs)
      [] command.kind = "Add" -> UpdateAdd(t, command.key, "starCount", command.n)

\* what a call does after its read: the requests it sends, await by await
Throws == [threw |-> TRUE, todo |-> <<>>, isFavorite |-> FALSE]
Sends(todo, isFavorite) == [threw |-> FALSE, todo |-> todo, isFavorite |-> isFavorite]

createAgent_requests(userId, content, agentId) ==
    LET put(item) ==
            IF item.isPublic
            THEN Sends(<<{PutCommand(item)},
                         {PutCommand(PublicKey(agentId) @@ item)}>>, FALSE)
            ELSE Sends(<<{PutCommand(item)}>>, FALSE)
    IN  put(createAgent(<<>>, userId, content, agentId).t[OwnerKey(userId, agentId)])

updateAgent_requests(agent, userId, agentId, content) ==
    IF agent = Null \/ Str(agent, "createdBy") # userId
    THEN Throws
    ELSE
    LET isNowPublic == Truthy(content, "isPublic")
        changed == ("isPublic" \in DOMAIN agent => agent.isPublic # isNowPublic)
        normal == [description |-> IF "description" \in DOMAIN content
                                   THEN content.description ELSE <<>>,
                   codeExecutionEnabled |-> Truthy(content, "codeExecutionEnabled"),
                   tags |-> IF "tags" \in DOMAIN content THEN content.tags ELSE <<>>,
                   isPublic |-> isNowPublic]
        main == UpdateCommandSet(KeyOf(agent),
                    normal @@ Pick(content, {"name", "systemPrompt", "modelId",
                                             "mcpServers", "createdByEmail"}))
    IN  IF changed \/ isNowPublic
        THEN Sends(<<{main},
                     {IF isNowPublic
                      THEN PutCommand(PublicKey(agentId) @@ normal @@ content @@ agent)
                      ELSE DeleteCommand(PublicKey(agentId))}>>, FALSE)
        ELSE Sends(<<{main}>>, FALSE)

deleteAgent_requests(agent, userId, agentId) ==
    IF agent = Null \/ Str(agent, "createdBy") # userId
    THEN Throws
    ELSE IF Truthy(agent, "isPublic")
    THEN Sends(<<{DeleteCommand(KeyOf(agent))},
                 {DeleteCommand(PublicKey(agentId))}>>, FALSE)
    ELSE Sends(<<{DeleteCommand(KeyOf(agent))}>>, FALSE)

\* mutant: the counters are written back from the snapshot the call read
toggleFavorite_requests_WritesBack(existingFavorite, agent, userId, agentId) ==
    LET key == FavoriteKey(userId, agentId)
        read == IF agent # Null /\ "starCount" \in DOMAIN agent
                THEN agent.starCount ELSE 0
        counters(n) ==
            IF agent = Null THEN {}
            ELSE IF Truthy(agent, "isPublic")
            THEN {UpdateCommandSet(KeyOf(agent), [starCount |-> read + n]),
                  UpdateCommandSet(PublicKey(agentId), [starCount |-> read + n])}
            ELSE {UpdateCommandSet(KeyOf(agent), [starCount |-> read + n])}
    IN  IF existingFavorite
        THEN Sends(<<{DeleteCommand(key)} \cup counters(-1)>>, FALSE)
        ELSE IF agent = Null
        THEN Throws
        ELSE Sends(<<{PutCommand(key @@ [agentId |-> agentId,
                                         createdBy |-> Str(agent, "createdBy")])}
                     \cup counters(1)>>, TRUE)

toggleFavorite_requests(existingFavorite, agent, userId, agentId) ==
    LET key == FavoriteKey(userId, agentId)
        counters(n) ==
            IF agent = Null THEN {}
            ELSE IF Truthy(agent, "isPublic")
            THEN {UpdateCommandAdd(KeyOf(agent), n),
                  UpdateCommandAdd(PublicKey(agentId), n)}
            ELSE {UpdateCommandAdd(KeyOf(agent), n)}
    IN  IF existingFavorite
        THEN Sends(<<{DeleteCommand(key)} \cup counters(-1)>>, FALSE)
        ELSE IF agent = Null
        THEN Throws
        ELSE Sends(<<{PutCommand(key @@ [agentId |-> agentId,
                                         createdBy |-> Str(agent, "createdBy")])}
                     \cup counters(1)>>, TRUE)

\* a call that has not read yet
Call(op, userId, agentId, isPublic) ==
    [op |-> op, userId |-> userId, agentId |-> agentId, isPublic |-> isPublic,
     pc |-> "read", todo |-> <<>>, existingFavorite |-> FALSE, isFavorite |-> FALSE]

\* the calls that may run side by side, each kind any number of times
CallKinds ==
    <<Call("updateAgent", Owner, AgentIdOf(1), TRUE),
      Call("updateAgent", Owner, AgentIdOf(1), FALSE),
      Call("deleteAgent", Owner, AgentIdOf(1), FALSE),
      Call("toggleFavorite", Owner, AgentIdOf(1), FALSE),
      Call("toggleFavorite", "u2", AgentIdOf(1), FALSE),
      Call("toggleFavorite", "u3", AgentIdOf(1), FALSE),
      Call("createAgent", Owner, AgentIdOf(2), TRUE)>>

ConcCalls ==
    {[i \in DOMAIN ks |-> CallKinds[ks[i]]] :
        ks \in {s \in UNION {[1..n -> DOMAIN CallKinds] : n \in 1..MaxCalls} :
                    \A i \in 1..(Len(s) - 1) : s[i] <= s[i + 1]}}

\* the stores the calls start from: agent a1 of the owner, public or made
\* private after `fans` made it a favorite
ConcStore(isPublic, fans) ==
    LET fav(t, u) == IF u \in fans THEN toggleFavorite(t, u, AgentIdOf(1)).t ELSE t
        created == service_createAgent(<<>>, Owner, Request2(TRUE), AgentIdOf(1)).t
        hide(t) == IF isPublic THEN t
                   ELSE updateAgent(t, Owner, AgentIdOf(1), Content(FALSE)).t
    IN  hide(fav(fav(created, "u2"), "u3"))

ConcInit ==
    /\ \E isPublic \in BOOLEAN, fans \in SUBSET Fans :
          /\ table = ConcStore(isPublic, fans)
          /\ \E calls \in ConcCalls :
                conc = [start |-> ConcStore(isPublic, fans), calls |-> calls]
    /\ nextId = 2
    /\ opCount = 0
    /\ lastOp = [op |-> "init"]
    /\ hist = <<>>
    /\ swr = [l \in Lists |-> [data |-> Null, error |-> FALSE, validating |-> FALSE]]
    /\ inflight = Null
    /\ clientOp = [op |-> "init"]

concFrame == UNCHANGED <<nextId, opCount, lastOp, hist, swr, inflight, clientOp>>

\* the call goes on with what it decided after its read
proceed(i, existingFavorite, plan) ==
    /\ conc' = [conc EXCEPT !.calls[i] =
                   [@ EXCEPT !.pc = IF plan.threw THEN "threw"
                                    ELSE IF plan.todo = <<>> THEN "done"
                                    ELSE "write",
                             !.todo = plan.todo,
                             !.existingFavorite = existingFavorite,
                             !.isFavorite = plan.isFavorite]]
    /\ UNCHANGED table
    /\ concFrame

\* uuidv7() and the item are computed without touching the store
createAgent_begin(i) ==
    LET c == conc.calls[i]
    IN  /\ c.op = "createAgent" /\ c.pc = "read"
        /\ proceed(i, FALSE,
                   createAgent_requests(c.userId, Content(c.isPublic), c.agentId))

updateAgent_read(i) ==
    LET c == conc.calls[i]
    IN  /\ c.op = "updateAgent" /\ c.pc = "read"
        /\ proceed(i, FALSE,
                   updateAgent_requests(findAgentByAgentId(table, c.agentId, c.userId),
                                        c.userId, c.agentId, Content(c.isPublic)))

deleteAgent_read(i) ==
    LET c == conc.calls[i]
    IN  /\ c.op = "deleteAgent" /\ c.pc = "read"
        /\ proceed(i, FALSE,
                   deleteAgent_requests(findAgentByAgentId(table, c.agentId, c.userId),
                                        c.userId, c.agentId))

toggleFavorite_read(i) ==
    LET c == conc.calls[i]
    IN  /\ c.op = "toggleFavorite" /\ c.pc = "read"
        /\ proceed(i, FavoriteKey(c.userId, c.agentId) \in DOMAIN table,
                   toggleFavorite_requests(
                       FavoriteKey(c.userId, c.agentId) \in DOMAIN table,
                       toggleAgentOf(table, c.userId, c.agentId),
                       c.userId, c.agentId))

\* one request of the call reaches the store; the call returns after its last
request(i) ==
    LET c == conc.calls[i]
    IN  /\ c.pc = "write"
        /\ \E command \in Head(c.todo) :
              LET rest == IF Head(c.todo) = {command} THEN Tail(c.todo)
                          ELSE <<Head(c.todo) \ {command}>> \o Tail(c.todo)
              IN  /\ table' = send(table, command)
                  /\ conc' = [conc EXCEPT !.calls[i] =
                                 [@ EXCEPT !.todo = rest,
                                           !.pc = IF rest = <<>> THEN "done"
                                                  ELSE "write"]]
        /\ concFrame

ConcNext ==
    \/ \E i \in DOMAIN conc.calls : createAgent_begin(i)
    \/ \E i \in DOMAIN conc.calls : updateAgent_read(i)
    \/ \E i \in DOMAIN conc.calls : deleteAgent_read(i)
    \/ \E i \in DOMAIN conc.calls : toggleFavorite_read(i)
    \/ \E i \in DOMAIN conc.calls : request(i)

ConcSpec == ConcInit /\ [][ConcNext]_vars

\* all calls have completed
Quiescent == conc # Null /\ \A i \in DOMAIN conc.calls : conc.calls[i].pc \in {"done", "threw"}

---------------------------------------------------------------------------
(* Overlapping toggles in the browser.  The hook cancels nothing: a toggle *)
(* may be issued while earlier ones are in flight, and the re-fetches they *)
(* start are served by the server between the toggles it is processing.    *)
(* inflight is here the sequence of the toggles in flight.                 *)

MaxInflight == 2
MaxOverlapSteps == 7

\* the request of a list and what the fetcher makes of the response
fetch(t, cache, list) ==
    LET loaded(response) ==
            IF list = "favorites" /\ response.threw
            THEN fetcherFailed(cache, list)
            ELSE fetcherLoaded(response)
    IN  loaded(IF list = "my"
               THEN service_listUserAgents(t, Me, DefaultLimit, NoToken)
               ELSE IF list = "favorites"
               THEN service_listFavoriteAgents(t, Me, DefaultLimit, NoToken)
               ELSE service_listPublicAgents(t, Me, DefaultLimit, NoToken))

\* toggleFavorite up to its await: the status it expects and the caches
\* after the optimistic rewrite
toggleFavorite_optimistic(s, agentId) ==
    LET rewrite(newFavoriteStatus, found, agent) ==
            [newFavoriteStatus |-> newFavoriteStatus,
             swr |-> [l \in Lists |->
                        [s[l] EXCEPT !.data =
                            IF l = "favorites"
                            THEN toggleInFavorites(@, agentId, newFavoriteStatus,
                                                   found, agent)
                            ELSE updateFavoriteStatus(@, agentId, newFavoriteStatus)]]]
        lookup(allLoadedAgents, idx) ==
            IF idx = 0 THEN rewrite(TRUE, FALSE, Null)
            ELSE rewrite(~Truthy(allLoadedAgents[idx], "isFavorite"), TRUE,
                         allLoadedAgents[idx])
        find(allLoadedAgents) ==
            lookup(allLoadedAgents, IndexOfAgent(allLoadedAgents, agentId))
    IN  find(AgentsOf(s["my"].data) \o AgentsOf(s["public"].data)
             \o AgentsOf(s["favorites"].data))

\* the browser of u1 has loaded its lists: u1 owns the public agent a1, u2
\* the public agent a2
LoadedStore ==
    service_createAgent(
        service_createAgent(<<>>, Me, Request2(TRUE), AgentIdOf(1)).t,
        "u2", Request2(TRUE), AgentIdOf(2)).t

OverlapInit ==
    /\ table = LoadedStore
    /\ nextId = 3
    /\ opCount = 0
    /\ lastOp = [op |-> "init"]
    /\ hist = [a \in AgentIds |->
                 [owner |-> IF a = AgentIdOf(1) THEN Me ELSE "u2",
                  everPublic |-> TRUE, unpublished |-> FALSE, deleted |-> FALSE]]
    /\ swr = [l \in Lists |->
                fetch(LoadedStore,
                      [data |-> Null, error |-> FALSE, validating |-> TRUE], l)]
    /\ inflight = <<>>
    /\ clientOp = [op |-> "init"]
    /\ conc = Null

OverlapStep ==
    /\ opCount < MaxOverlapSteps
    /\ opCount' = opCount + 1
    /\ UNCHANGED <<nextId, lastOp, hist, conc>>

overlap_toggleFavorite_call(agentId) ==
    LET issue(o) ==
            /\ swr' = o.swr
            /\ inflight' = Append(inflight,
                                  [op |-> "toggleFavorite", agentId |-> agentId,
                                   newFavoriteStatus |-> o.newFavoriteStatus])
            /\ clientOp' = [op |-> "toggleFavorite", phase |-> "call", ok |-> TRUE,
                            refetched |-> {}, toasts |-> <<>>]
    IN  /\ Len(inflight) < MaxInflight
        /\ OverlapStep
        /\ issue(toggleFavorite_optimistic(swr, agentId))
        /\ UNCHANGED table

\* the k-th toggle in flight is processed by the server and its response
\* (or the failure of the network) reaches the hook
overlap_toggleFavorite_settle(k, networkOk) ==
    LET rest == [i \in 1..(Len(inflight) - 1) |->
                   IF i < k THEN inflight[i] ELSE inflight[i + 1]]
        then(t, ok, agrees) ==
            /\ table' = t
            /\ swr' = mutateRevalidate(swr, IF ok /\ agrees THEN {} ELSE Lists)
            /\ inflight' = rest
            /\ clientOp' = [op |-> "toggleFavorite", phase |-> "settled", ok |-> ok,
                            agrees |-> agrees,
                            refetched |-> IF ok /\ agrees THEN {} ELSE Lists,
                            toasts |-> IF ok THEN <<>>
                                       ELSE failureToasts("failed_to_toggle_favorite",
                                                          networkOk)]
        answer(r) ==
            then(r.t, ~r.threw,
                 ~r.threw /\ r.out.isFavorite = inflight[k].newFavoriteStatus)
    IN  /\ k \in DOMAIN inflight
        /\ OverlapStep
        /\ IF networkOk
           THEN answer(service_toggleAgentFavorite(table, Me, inflight[k].agentId))
           ELSE then(table, FALSE, FALSE)

\* the response of a re-fetch arrives
overlap_revalidate(list) ==
    /\ swr[list].validating
    /\ OverlapStep
    /\ swr' = [swr EXCEPT ![list] = fetch(table, swr[list], list)]
    /\ clientOp' = [op |-> "revalidate", list |-> list, ok |-> TRUE,
                    refetched |-> {}, toasts |-> <<>>]
    /\ UNCHANGED <<table, inflight>>

OverlapNext ==
    \/ \E a \in AgentIds : overlap_toggleFavorite_call(a)
    \/ \E k \in 1..MaxInflight, networkOk \in BOOLEAN :
          overlap_toggleFavorite_settle(k, networkOk)
    \/ \E l \in Lists : overlap_revalidate(l)

OverlapSpec == OverlapInit /\ [][OverlapNext]_vars

---------------------------------------------------------------------------
(* The browser once its lists are loaded: the mutations of ClientNext on   *)
(* caches that hold the pages of the first fetch.                          *)

LoadedInit ==
    /\ table = service_createAgent(<<>>, Me, Request2(TRUE), AgentIdOf(1)).t
    /\ nextId = 2
    /\ opCount = 0
    /\ lastOp = [op |-> "init"]
    /\ hist = (AgentIdOf(1) :> [owner |-> Me, everPublic |-> TRUE,
                               unpublished |-> FALSE, deleted |-> FALSE])
    /\ swr = [l \in Lists |->
                fetch(service_createAgent(<<>>, Me, Request2(TRUE), AgentIdOf(1)).t,
                      [data |-> Null, error |-> FALSE, validating |-> TRUE], l)]
    /\ inflight = Null
    /\ clientOp = [op |-> "init"]
    /\ conc = Null

LoadedClientSpec == LoadedInit /\ [][ClientNext]_vars

---------------------------------------------------------------------------
(* Properties *)

PublicTokens == Tokens(table, <<"public-agents">>, "public")
FavoriteTokens(userId) == Tokens(table, <<"agent", userId>>, "favorite")

\* C1: an agent created private and never made public is not found by
\* getAgent for any caller other than its owner, in every reachable state
C1_PrivateNeverVisibleToOthers ==
    \A a \in Created :
        ~hist[a].everPublic =>
            /\ \A u \in Users \ {OwnerOf(a)} : getAgent(table, u, a) = Null
            /\ (lastOp.op = "getAgent" /\ lastOp.agentId = a
                /\ lastOp.userId # OwnerOf(a))
               => (lastOp.repo = Null /\ lastOp.error = "NotFoundError")

C1_Witness ==
    /\ lastOp.op = "getAgent"
    /\ lastOp.agentId \in Created
    /\ HasOwnerRecord(table, lastOp.agentId)
    /\ ~hist[lastOp.agentId].everPublic
    /\ lastOp.userId # OwnerOf(lastOp.agentId)
    /\ lastOp.repo = Null

\* the agent ids on a page of the public list
PublicPageIds(t, userId, exclusiveStartKey, limit) ==
    LET page == listPublicAgentsWithFavoritesPaginated(t, userId,
                                                       exclusiveStartKey, limit)
    IN  {Str(page.data[i], "agentId") : i \in 1..Len(page.data)}

\* C2: once the owner's update from public to private has completed, no
\* page of the public list (any caller, limit, cursor) contains the agent and
\* getAgent by a non-owner finds nothing, until the owner makes it public again
C2_UnpublishedStaysHidden ==
    \A a \in Created :
        hist[a].unpublished =>
            /\ \A u \in Users \ {OwnerOf(a)} : getAgent(table, u, a) = Null
            /\ \A u \in Users, l \in Limits, k \in PublicTokens :
                   a \notin PublicPageIds(table, u, k, l)
            /\ lastOp.op = "listPublicAgents" =>
                   \A i \in 1..Len(lastOp.out.agents) :
                       lastOp.out.agents[i].agentId # a

C2_Witness ==
    /\ lastOp.op = "listPublicAgents"
    /\ Len(lastOp.out.agents) > 0
    /\ \E a \in Created :
          /\ hist[a].unpublished
          /\ HasOwnerRecord(table, a)
          /\ lastOp.userId # OwnerOf(a)

\* C3: with the operations run one at a time to completion, a public record
\* exists for an agent id exactly when an owner record for that id exists
\* with isPublic = TRUE
C3_PublicRecordIffOwnerPublic ==
    \A a \in AgentIds :
        (PublicKey(a) \in DOMAIN table)
        <=> (\E u \in Users : /\ OwnerKey(u, a) \in DOMAIN table
                              /\ table[OwnerKey(u, a)].isPublic)

C3_Witness ==
    /\ lastOp.op = "updateAgent"
    /\ lastOp.ok
    /\ lastOp.wasPublic
    /\ ~lastOp.request.isPublic
    /\ HasOwnerRecord(table, lastOp.agentId)
    /\ PublicKey(lastOp.agentId) \notin DOMAIN table
    /\ \E b \in AgentIds : PublicKey(b) \in DOMAIN table

\* the number of favorite records that reference the agent id
FavoriteCount(t, agentId) ==
    Cardinality({u \in Users : FavoriteKey(u, agentId) \in DOMAIN t})

\* C4: after any sequence of completed operations run one at a time, the
\* starCount of every existing owner record, and of its public copy when
\* present, equals the number of favorite records that reference the agent
C4_StarCountMatchesFavorites ==
    \A a \in Created :
        HasOwnerRecord(table, a) =>
            /\ OwnerRecord(table, a).starCount = FavoriteCount(table, a)
            /\ PublicKey(a) \in DOMAIN table =>
                   table[PublicKey(a)].starCount = FavoriteCount(table, a)

\* C5: two consecutive toggles by the same caller on an agent the caller
\* owns or that is public return opposite isFavorite values and restore the
\* favorite record's presence and both counters
C5_ToggleTwiceRestores ==
    (/\ lastOp.op = "toggleFavorite"
     /\ lastOp.prev # <<>>
     /\ lastOp.prev[1].accessible)
    => /\ lastOp.ok
       /\ lastOp.out.isFavorite # lastOp.prev[1].out.isFavorite
       /\ Snapshot(table, lastOp.userId, lastOp.agentId) = lastOp.prev[1].pre

C5_Witness ==
    /\ lastOp.op = "toggleFavorite"
    /\ lastOp.ok
    /\ lastOp.prev # <<>>
    /\ lastOp.prev[1].accessible
    /\ lastOp.userId # OwnerOf(lastOp.agentId)
    /\ lastOp.prev[1].out.isFavorite
    /\ ~lastOp.out.isFavorite
    /\ lastOp.prev[1].pre.pub = 0
    /\ StarOf(table, PublicKey(lastOp.agentId)) = 0

\* C6: listFavoriteAgents does not throw, returns one entry per favorite
\* record read for the page, in the order of the favorite records, and the
\* entry of an agent its owner deleted carries that id with status "deleted"
C6_DeletedFavoritesListed ==
    \A u \in Users, l \in Limits : \A k \in FavoriteTokens(u) :
        LET favorites == findFavoritesByUserId(table, u, k, l).favorites
            result == listFavoriteAgents(table, u, k, l)
        IN  /\ ~result.threw
            /\ Len(result.data) = Len(favorites)
            /\ \A i \in 1..Len(favorites) :
                  /\ result.data[i].agentId = favorites[i].agentId
                  /\ (favorites[i].agentId \in Created
                      /\ hist[favorites[i].agentId].deleted)
                     => result.data[i].status = "deleted"

C6_Witness ==
    /\ lastOp.op = "listFavoriteAgents"
    /\ lastOp.ok
    /\ \E i \in 1..Len(lastOp.repo.data) :
          /\ lastOp.repo.data[i].agentId \in Created
          /\ hist[lastOp.repo.data[i].agentId].deleted
          /\ OwnerOf(lastOp.repo.data[i].agentId) # lastOp.userId
          /\ lastOp.repo.data[i].status = "deleted"

\* the caller's favorite refers to another user's agent that still exists
\* and is private
PrivateOfAnother(t, userId, agentId) ==
    /\ HasOwnerRecord(t, agentId)
    /\ OwnerOf(agentId) # userId
    /\ ~OwnerRecord(t, agentId).isPublic

\* C7: a favorite of another user's agent that the owner made private
\* (without deleting it) is listed with status "private", not "deleted"
C7_PrivateFavoriteListedPrivate ==
    \A u \in Users, l \in Limits : \A k \in FavoriteTokens(u) :
        LET result == listFavoriteAgents(table, u, k, l)
        IN  \A i \in 1..Len(result.data) :
                PrivateOfAnother(table, u, result.data[i].agentId)
                => result.data[i].status = "private"

\* C8: the favorites list the service returns carries status "deleted" for
\* a favorited agent its owner has deleted
C8_ServiceKeepsDeletedStatus ==
    \A u \in Users, l \in Limits : \A k \in FavoriteTokens(u) :
        LET result == service_listFavoriteAgents(table, u, l, k)
        IN  \A i \in 1..Len(result.agents) :
                (result.agents[i].agentId \in Created
                 /\ hist[result.agents[i].agentId].deleted)
                => /\ "status" \in DOMAIN result.agents[i]
                   /\ result.agents[i].status = "deleted"

\* the content fields a clone copies
ContentFields ==
    {"systemPrompt", "modelId", "mcpServers", "codeExecutionEnabled", "tags"}

\* C9: cloneAgent of an agent the caller owns or that is public creates
\* exactly one new agent under a fresh id, owned by the caller, private, with
\* starCount 0, the source's content fields and the override name or the
\* source name followed by " (Cloned)"; every other record is unchanged
C9_CloneStep ==
    (/\ lastOp'.op = "cloneAgent"
     /\ Accessible(table, lastOp'.userId, lastOp'.agentId))
    => LET new == AgentIdOf(nextId)
           key == OwnerKey(lastOp'.userId, new)
           source == OwnerRecord(table, lastOp'.agentId)
       IN  /\ lastOp'.ok
           /\ lastOp'.out.agentId = new
           /\ new \notin Created
           /\ \A k \in DOMAIN table : k.dataType[2] # new
           /\ DOMAIN table' = DOMAIN table \cup {key}
           /\ \A k \in DOMAIN table : table'[k] = table[k]
           /\ table'[key].createdBy = lastOp'.userId
           /\ table'[key].agentId = new
           /\ table'[key].isPublic = FALSE
           /\ table'[key].starCount = 0
           /\ Pick(table'[key], ContentFields) = Pick(source, ContentFields)
           /\ table'[key].name =
                 IF "name" \in DOMAIN lastOp'.request
                 THEN lastOp'.request.name
                 ELSE source.name \o <<" ", "(Cloned)">>

C9_CloneCopiesPrivately == [][C9_CloneStep]_vars

C9_Witness ==
    /\ lastOp.op = "cloneAgent"
    /\ lastOp.ok
    /\ lastOp.userId # OwnerOf(lastOp.agentId)
    /\ "name" \notin DOMAIN lastOp.request
    /\ PublicKey(lastOp.agentId) \in DOMAIN table
    /\ HasOwnerRecord(table, lastOp.out.agentId)
    /\ OwnerOf(lastOp.out.agentId) = lastOp.userId
    /\ ~OwnerRecord(table, lastOp.out.agentId).isPublic

\* C10: updateAgent and deleteAgent by a caller who is not the agent's owner
\* fail and leave every record of the store unchanged
C10_NonOwnerStep ==
    (/\ lastOp'.op \in {"updateAgent", "deleteAgent"}
     /\ lastOp'.agentId \in Created
     /\ OwnerOf(lastOp'.agentId) # lastOp'.userId)
    => /\ ~lastOp'.ok
       /\ table' = table

C10_NonOwnerCannotMutate == [][C10_NonOwnerStep]_vars

C10_Witness ==
    /\ lastOp.op \in {"updateAgent", "deleteAgent"}
    /\ ~lastOp.ok
    /\ HasOwnerRecord(table, lastOp.agentId)
    /\ OwnerOf(lastOp.agentId) # lastOp.userId
    /\ OwnerRecord(table, lastOp.agentId).isPublic
    /\ PublicKey(lastOp.agentId) \in DOMAIN table
    /\ FavoriteKey(lastOp.userId, lastOp.agentId) \in DOMAIN table

\* C11: an update or delete of an existing public agent by a caller who is
\* not its owner is answered with ForbiddenError and status 403
C11_NonOwnerStep ==
    (/\ lastOp'.op \in {"updateAgent", "deleteAgent"}
     /\ HasOwnerRecord(table, lastOp'.agentId)
     /\ OwnerOf(lastOp'.agentId) # lastOp'.userId
     /\ OwnerRecord(table, lastOp'.agentId).isPublic)
    => /\ lastOp'.error = "ForbiddenError"
       /\ lastOp'.statusCode = 403

C11_NonOwnerGetsForbidden == [][C11_NonOwnerStep]_vars

\* one page of a list, as the service returns it
ListPage(kind, t, userId, limit, nextToken) ==
    IF kind = "my" THEN service_listUserAgents(t, userId, limit, nextToken)
    ELSE IF kind = "public" THEN service_listPublicAgents(t, userId, limit, nextToken)
    ELSE service_listFavoriteAgents(t, userId, limit, nextToken)

\* the agent ids of the records of the partition a list reads
ListedIds(kind, t, userId) ==
    {k.dataType[2] : k \in {x \in DOMAIN t :
        IF kind = "my" THEN x.id = <<"agent", userId>> /\ x.dataType[1] = "agent"
        ELSE IF kind = "public" THEN x.id = <<"public-agents">>
        ELSE x.id = <<"agent", userId>> /\ x.dataType[1] = "favorite"}}

\* the pages obtained by passing each returned nextToken to the next request,
\* until no token is returned (at most `fuel` requests)
RECURSIVE FollowPages(_, _, _, _, _, _)
FollowPages(kind, t, userId, limit, nextToken, fuel) ==
    LET next(page) ==
            IF page.nextToken = NoToken THEN <<page.agents>>
            ELSE IF fuel = 0 THEN <<page.agents, <<[agentId |-> "more"]>> >>
            ELSE <<page.agents>>
                 \o FollowPages(kind, t, userId, limit, page.nextToken, fuel - 1)
    IN  next(ListPage(kind, t, userId, limit, nextToken))

RECURSIVE Flatten(_)
Flatten(pages) ==
    IF pages = <<>> THEN <<>>
    ELSE [i \in 1..Len(Head(pages)) |-> Head(pages)[i].agentId]
         \o Flatten(Tail(pages))

FavoriteRecords(t) ==
    [k \in {x \in DOMAIN t : x.dataType[1] = "favorite"} |-> t[k]]

\* C13: deleteAgent by the owner removes the owner record and the public
\* record, so that neither the owner's list nor the public list contains the
\* id any more, and it leaves every favorite record of every user as it was
C13_DeleteStep ==
    (/\ lastOp'.op = "deleteAgent"
     /\ HasOwnerRecord(table, lastOp'.agentId)
     /\ OwnerOf(lastOp'.agentId) = lastOp'.userId)
    => /\ lastOp'.ok
       /\ OwnerKey(lastOp'.userId, lastOp'.agentId) \notin DOMAIN table'
       /\ PublicKey(lastOp'.agentId) \notin DOMAIN table'
       /\ \A l \in Limits :
             LET mine == Flatten(FollowPages("my", table', lastOp'.userId, l,
                                             NoToken, MaxAgents + 1))
             IN  \A i \in 1..Len(mine) : mine[i] # lastOp'.agentId
       /\ \A u \in Users, l \in Limits :
             LET pub == Flatten(FollowPages("public", table', u, l,
                                            NoToken, MaxAgents + 1))
             IN  \A i \in 1..Len(pub) : pub[i] # lastOp'.agentId
       /\ FavoriteRecords(table') = FavoriteRecords(table)

C13_DeleteRemovesRecordsOnly == [][C13_DeleteStep]_vars

C13_Witness ==
    /\ lastOp.op = "deleteAgent"
    /\ lastOp.ok
    /\ lastOp.agentId \in Created
    /\ lastOp.userId = OwnerOf(lastOp.agentId)
    /\ hist[lastOp.agentId].everPublic
    /\ ~hist[lastOp.agentId].unpublished
    /\ \E u \in Users \ {lastOp.userId} :
          FavoriteKey(u, lastOp.agentId) \in DOMAIN table

\* C14: toggleFavorite by a caller who has no favorite record for the id,
\* when the caller has no owner record and no public record exists for it,
\* fails and leaves the whole store unchanged
C14_ToggleStep ==
    (/\ lastOp'.op = "toggleFavorite"
     /\ FavoriteKey(lastOp'.userId, lastOp'.agentId) \notin DOMAIN table
     /\ OwnerKey(lastOp'.userId, lastOp'.agentId) \notin DOMAIN table
     /\ PublicKey(lastOp'.agentId) \notin DOMAIN table)
    => /\ ~lastOp'.ok
       /\ lastOp'.error # ""
       /\ lastOp'.statusCode >= 400
       /\ table' = table

C14_CannotFavoriteMissing == [][C14_ToggleStep]_vars

C14_Witness ==
    /\ lastOp.op = "toggleFavorite"
    /\ ~lastOp.ok
    /\ HasOwnerRecord(table, lastOp.agentId)
    /\ OwnerOf(lastOp.agentId) # lastOp.userId
    /\ ~OwnerRecord(table, lastOp.agentId).isPublic
    /\ FavoriteKey(lastOp.userId, lastOp.agentId) \notin DOMAIN table
    /\ \E a \in Created : hist[a].deleted

\* what a record carries besides its key
Payload(item) == [a \in DOMAIN item \ {"id", "dataType"} |-> item[a]]

\* C15: createAgent answers with an id no record and no earlier agent has,
\* isMyAgent = TRUE and starCount = 0; it adds exactly one owner record under
\* the caller and, exactly when isPublic was true, a public record with the
\* same payload; no other record changes
C15_CreateStep ==
    lastOp'.op = "createAgent"
    => LET new == lastOp'.out.agentId
           key == OwnerKey(lastOp'.userId, new)
       IN  /\ lastOp'.ok
           /\ lastOp'.statusCode = 201
           /\ new \notin Created
           /\ \A k \in DOMAIN table : k.dataType[2] # new
           /\ lastOp'.out.isMyAgent = TRUE
           /\ lastOp'.out.starCount = 0
           /\ DOMAIN table' = DOMAIN table \cup {key}
                              \cup (IF lastOp'.request.isPublic
                                    THEN {PublicKey(new)} ELSE {})
           /\ \A k \in DOMAIN table : table'[k] = table[k]
           /\ table'[key].createdBy = lastOp'.userId
           /\ table'[key].starCount = 0
           /\ table'[key].isPublic = lastOp'.request.isPublic
           /\ lastOp'.request.isPublic
              => Payload(table'[PublicKey(new)]) = Payload(table'[key])

C15_CreateStoresOwnerAndPublic == [][C15_CreateStep]_vars

C15_Witness ==
    /\ lastOp.op = "createAgent"
    /\ lastOp.ok
    /\ lastOp.request.isPublic
    /\ lastOp.out.agentId = AgentIdOf(MaxAgents)
    /\ PublicKey(lastOp.out.agentId) \in DOMAIN table
    /\ \E a \in Created : ~hist[a].everPublic /\ HasOwnerRecord(table, a)

\* the routes whose body the router parses: POST /agents,
\* POST /agents/clone and PUT /agents/{id}
C16_BodyRoute(event) ==
    \/ event.resource = "/agents" /\ event.httpMethod = "POST"
    \/ /\ event.resource = "/agents/{proxy+}"
       /\ \/ event.proxy = <<"clone">> /\ event.httpMethod = "POST"
          \/ /\ Len(event.proxy) = 1
             /\ event.proxy[1] \notin {"", "my", "public", "favorites"}
             /\ event.httpMethod = "PUT"

\* an identified request that is rejected for its input: its body is absent,
\* empty or not JSON on a route that takes one, or the validation of an
\* endpoint handler (user id, agent id, schema) refuses it
C16_RejectedForInput ==
    /\ lastOp.op = "handler"
    /\ lastOp.event.httpMethod # "OPTIONS"
    /\ lastOp.event.username # ""
    /\ \/ /\ C16_BodyRoute(lastOp.event)
          /\ ~validateAndParseRequestBody(lastOp.event.body).isValid
       \/ lastOp.handledBy # ""

\* C16: every request rejected for malformed or missing input (an invalid
\* user or agent id, a schema violation, an absent, empty or non-JSON body on
\* POST /agents, PUT /agents/{id} or POST /agents/clone) is answered with
\* status 400 and a body {error}.
C16_MalformedInputIs400 ==
    C16_RejectedForInput =>
        /\ lastOp.statusCode = 400
        /\ DOMAIN lastOp.body = {"error"}

\* C17: a non-OPTIONS request without a caller identity is rejected with
\* status 403, is routed to no endpoint handler and leaves the store as it is.
C17_NoIdentityStep ==
    (/\ lastOp'.op = "handler"
     /\ lastOp'.event.httpMethod # "OPTIONS"
     /\ lastOp'.event.username = "")
        => /\ lastOp'.statusCode = 403
           /\ lastOp'.handledBy = ""
           /\ table' = table

C17_NoIdentityIs403 == [][C17_NoIdentityStep]_vars

\* C18: when the fetch of a list that has pages loaded fails, the cache of
\* that list keeps its pages unchanged and shows an error flag.
C18_FailedFetchStep ==
    \A l \in Lists :
        (/\ clientOp'.op = "revalidate"
         /\ clientOp'.list = l
         /\ ~clientOp'.ok
         /\ swr[l].data # Null)
            => /\ swr'[l].data = swr[l].data
               /\ swr'[l].error

C18_FailedFetchKeepsPages == [][C18_FailedFetchStep]_vars

C19_Mutations ==
    {"createAgent", "updateAgent", "deleteAgent", "cloneAgent", "toggleFavorite"}

\* C19: when the network call of a client mutation fails, all three lists
\* are revalidated and a failure notification is shown.
C19_FailedMutationStep ==
    (/\ clientOp'.op \in C19_Mutations
     /\ clientOp'.phase = "settled"
     /\ ~clientOp'.ok)
        => /\ clientOp'.refetched = Lists
           /\ \A l \in Lists : swr'[l].validating
           /\ clientOp'.toasts # <<>>

C19_FailureRefetchesAllLists == [][C19_FailedMutationStep]_vars

\* C20: when the network call of a mutation that rewrote the caches
\* optimistically succeeds with the result it assumed, the caches keep the
\* optimistic state and a re-fetch is triggered.
C20_AgreeingMutationStep ==
    (/\ clientOp'.op \in {"updateAgent", "deleteAgent", "toggleFavorite"}
     /\ clientOp'.phase = "settled"
     /\ clientOp'.ok
     /\ clientOp'.agrees)
        => /\ \A l \in Lists : swr'[l].data = swr[l].data
           /\ clientOp'.refetched # {}
           /\ \E l \in Lists : swr'[l].validating

C20_AgreementStillRefetches == [][C20_AgreeingMutationStep]_vars

C21_Ids(agentsRaw) ==
    {AgentsOf(agentsRaw)[i].agentId : i \in DOMAIN AgentsOf(agentsRaw)}

\* the item of the list with this id, if any, satisfies: its fields are these
C21_Shows(agentsRaw, agentId, fields) ==
    \A i \in DOMAIN AgentsOf(agentsRaw) :
        AgentsOf(agentsRaw)[i].agentId = agentId =>
            \A f \in DOMAIN fields :
                /\ f \in DOMAIN AgentsOf(agentsRaw)[i]
                /\ AgentsOf(agentsRaw)[i][f] = fields[f]

\* C21: when the network call of a client mutation is issued, the cached
\* pages already show the intended result: one more item at the head of the
\* owned list for create and clone, the patched item for update, no item of
\* that id for delete, the new favorite state for toggle-favorite.
C21_OptimisticStep ==
    (/\ clientOp'.op \in C19_Mutations
     /\ clientOp'.phase = "call")
        => /\ clientOp'.op \in {"createAgent", "cloneAgent"} =>
                 Len(AgentsOf(swr'["my"].data)) = Len(AgentsOf(swr["my"].data)) + 1
           /\ clientOp'.op = "updateAgent" =>
                 \A l \in Lists :
                     C21_Shows(swr'[l].data, inflight'.agentId, inflight'.params)
           /\ clientOp'.op = "deleteAgent" =>
                 \A l \in Lists : inflight'.agentId \notin C21_Ids(swr'[l].data)
           /\ clientOp'.op = "toggleFavorite" =>
                 /\ \A l \in {"my", "public"} :
                        C21_Shows(swr'[l].data, inflight'.agentId,
                                  [isFavorite |-> inflight'.newFavoriteStatus])
                 /\ ~inflight'.newFavoriteStatus =>
                        inflight'.agentId \notin C21_Ids(swr'["favorites"].data)

C21_RewriteBeforeCall == [][C21_OptimisticStep]_vars

\* the calls that run are updateAgent calls of the owner and toggleFavorite
\* calls of other callers
C22_UpdatesAndToggles ==
    /\ conc # Null
    /\ \A i \in DOMAIN conc.calls :
          \/ conc.calls[i].op = "updateAgent"
          \/ conc.calls[i].op = "toggleFavorite" /\ conc.calls[i].userId # Owner

\* C22: whatever the interleaving of the reads and writes of concurrent
\* updateAgent calls of the owner and toggleFavorite calls of other callers
\* on the agent, once all calls have completed the agent has a public record
\* if and only if its owner record has isPublic = true.
C22_PublicIffOwnerPublic ==
    (C22_UpdatesAndToggles /\ Quiescent)
        => (PublicKey(AgentIdOf(1)) \in DOMAIN table
              <=> /\ OwnerKey(Owner, AgentIdOf(1)) \in DOMAIN table
                  /\ Truthy(table[OwnerKey(Owner, AgentIdOf(1))], "isPublic"))

\* a deleteAgent of the owner has completed, beside updateAgent calls of the
\* owner and toggleFavorite calls
C23_DeleteCompleted ==
    /\ conc # Null
    /\ \A i \in DOMAIN conc.calls :
          conc.calls[i].op \in {"deleteAgent", "updateAgent", "toggleFavorite"}
    /\ \E i \in DOMAIN conc.calls :
          conc.calls[i].op = "deleteAgent" /\ conc.calls[i].pc = "done"

\* C23: once a deleteAgent of the owner has completed and every updateAgent
\* and toggleFavorite that ran beside it has completed too, the store holds
\* neither an owner record nor a public record of the agent: no call
\* re-creates a record of the deleted agent.
C23_DeletedStaysDeleted ==
    (C23_DeleteCompleted /\ Quiescent)
        => /\ OwnerKey(Owner, AgentIdOf(1)) \notin DOMAIN table
           /\ PublicKey(AgentIdOf(1)) \notin DOMAIN table

\* the favorite records of the agent in a store
C24_Favorites(t) ==
    {k \in DOMAIN t : k.dataType = <<"favorite", AgentIdOf(1)>>}

\* different callers each run one toggleFavorite on the public agent, and
\* nothing else runs
C24_TogglesOnly ==
    /\ conc # Null
    /\ Len(conc.calls) >= 2
    /\ PublicKey(AgentIdOf(1)) \in DOMAIN conc.start
    /\ \A i \in DOMAIN conc.calls : conc.calls[i].op = "toggleFavorite"
    /\ \A i, j \in DOMAIN conc.calls :
          i # j => conc.calls[i].userId # conc.calls[j].userId

\* C24: when different callers each run one toggleFavorite on the same public
\* agent concurrently and nothing else runs, then once all have completed the
\* starCount of the owner record and the starCount of the public copy have
\* each changed by the number of favorite records created minus the number
\* deleted: no increment or decrement is lost.
C24_NoStarLost ==
    (C24_TogglesOnly /\ Quiescent)
        => LET net == Cardinality(C24_Favorites(table))
                        - Cardinality(C24_Favorites(conc.start))
               own == OwnerKey(Owner, AgentIdOf(1))
               pub == PublicKey(AgentIdOf(1))
           IN  /\ own \in DOMAIN table /\ pub \in DOMAIN table
               /\ table[own].starCount = conc.start[own].starCount + net
               /\ table[pub].starCount = conc.start[pub].starCount + net

\* three callers have toggled side by side, one of them removing a favorite
\* and one adding one
C24_Witness ==
    /\ C24_TogglesOnly /\ Quiescent
    /\ Len(conc.calls) = 3
    /\ \E i, j \in DOMAIN conc.calls :
          /\ conc.calls[i].existingFavorite /\ ~conc.calls[i].isFavorite
          /\ ~conc.calls[j].existingFavorite /\ conc.calls[j].isFavorite

\* one updateAgent of the owner that keeps the public agent public, beside
\* toggleFavorite calls of other callers
C25_UpdateKeepsPublic ==
    /\ conc # Null
    /\ PublicKey(AgentIdOf(1)) \in DOMAIN conc.start
    /\ Cardinality({i \in DOMAIN conc.calls : conc.calls[i].op = "updateAgent"}) = 1
    /\ \A i \in DOMAIN conc.calls :
          \/ conc.calls[i].op = "updateAgent" /\ conc.calls[i].isPublic
          \/ conc.calls[i].op = "toggleFavorite" /\ conc.calls[i].userId # Owner

\* C25: whatever the interleaving of an updateAgent of the owner that keeps
\* the agent public with toggleFavorite calls of other callers on the agent,
\* once all calls have completed the starCount of the public record equals
\* the starCount of the owner record: the public copy that updateAgent
\* rewrites discards no counter change applied meanwhile.
C25_PublicStarCountFollows ==
    (C25_UpdateKeepsPublic /\ Quiescent)
        => table[PublicKey(AgentIdOf(1))].starCount
             = table[OwnerKey(Owner, AgentIdOf(1))].starCount

\* C26: in every reachable state, whatever the interleaving of createAgent,
\* updateAgent, deleteAgent and toggleFavorite calls (two concurrent
\* toggleFavorite calls of one caller on one agent included), the starCount
\* of every owner record and of every public record is at least 0.
C26_StarCountNotNegative ==
    conc # Null
        => \A k \in DOMAIN table :
              (k.dataType[1] \in {"agent", "public"} /\ "starCount" \in DOMAIN table[k])
                  => table[k].starCount >= 0

\* C27: toggleFavorite by a caller whose favorite record exists while the
\* agent is not resolvable for them (no owner record of the caller and no
\* public record for the id) deletes the favorite record, returns
\* isFavorite = false, and creates or modifies no owner or public record.
C27_ToggleStep ==
    (/\ lastOp'.op = "toggleFavorite"
     /\ FavoriteKey(lastOp'.userId, lastOp'.agentId) \in DOMAIN table
     /\ OwnerKey(lastOp'.userId, lastOp'.agentId) \notin DOMAIN table
     /\ PublicKey(lastOp'.agentId) \notin DOMAIN table)
    => /\ lastOp'.ok
       /\ lastOp'.statusCode = 200
       /\ lastOp'.out = [isFavorite |-> FALSE]
       /\ FavoriteKey(lastOp'.userId, lastOp'.agentId) \notin DOMAIN table'
       /\ \A k \in (DOMAIN table \cup DOMAIN table') :
             k.dataType[1] \in {"agent", "public"}
                => /\ k \in DOMAIN table /\ k \in DOMAIN table'
                   /\ table'[k] = table[k]

C27_UnfavoriteUnresolvedOnlyDeletes == [][C27_ToggleStep]_vars

\* a favorite of an agent that its owner has meanwhile hidden or deleted has
\* just been removed
C27_Witness ==
    /\ lastOp.op = "toggleFavorite"
    /\ lastOp.ok
    /\ lastOp.pre.fav
    /\ ~lastOp.accessible
    /\ lastOp.out = [isFavorite |-> FALSE]
    /\ OwnerKey(lastOp.userId, lastOp.agentId) \notin DOMAIN table
    /\ PublicKey(lastOp.agentId) \notin DOMAIN table
    /\ FavoriteKey(lastOp.userId, lastOp.agentId) \notin DOMAIN table

\* C28: every item of a public-list page has isFavorite = true exactly when
\* the caller has a favorite record for its agent id, and isMyAgent = true
\* exactly when the caller is the owner of the agent; every item of the
\* caller's own-agents page has isMyAgent = true and isFavorite by the same
\* rule.
C28_PageFlags ==
    (lastOp.op \in {"listPublicAgents", "listUserAgents"})
        => \A i \in DOMAIN lastOp.out.agents :
              LET item == lastOp.out.agents[i]
              IN  /\ item.isFavorite
                       = (FavoriteKey(lastOp.userId, item.agentId) \in DOMAIN table)
                  /\ item.isMyAgent = (OwnerOf(item.agentId) = lastOp.userId)
                  /\ lastOp.op = "listUserAgents" => item.isMyAgent

\* a public-list page shows an agent of someone else that the caller has
\* made a favorite
C28_Witness ==
    /\ lastOp.op = "listPublicAgents"
    /\ \E i \in DOMAIN lastOp.out.agents :
          /\ lastOp.out.agents[i].isFavorite
          /\ ~lastOp.out.agents[i].isMyAgent
          /\ OwnerOf(lastOp.out.agents[i].agentId) # lastOp.userId
          /\ FavoriteKey(lastOp.userId, lastOp.out.agents[i].agentId) \in DOMAIN table

\* every toggle issued has resolved and every re-fetch has come back
C29_Settled ==
    /\ clientOp.op # "init"
    /\ inflight = <<>>
    /\ \A l \in Lists : ~swr[l].validating /\ ~swr[l].error

\* C29: once every toggleFavorite request of the client has resolved and
\* every re-fetch it started has completed, every agent in a cached list has
\* the isFavorite that the server holds (a favorite record of the caller
\* exists or not), also when a toggle was issued while another was in flight.
C29_FavoriteStateConverges ==
    C29_Settled
        => \A l \in Lists : \A i \in DOMAIN AgentsOf(swr[l].data) :
              AgentsOf(swr[l].data)[i].isFavorite
                = (FavoriteKey(Me, AgentsOf(swr[l].data)[i].agentId) \in DOMAIN table)

\* C30: in every cache state reached by optimistic create, clone, update,
\* delete and toggle-favorite mutations from lists in which every agent id
\* occurs at most once, each of the three cached lists still holds every
\* agent id at most once across its pages.
C30_IdsUnique ==
    \A l \in Lists : \A i, j \in DOMAIN AgentsOf(swr[l].data) :
        AgentsOf(swr[l].data)[i].agentId = AgentsOf(swr[l].data)[j].agentId
            => i = j

\* an optimistic toggle has just made a favorite of an agent that the
\* favorites list already showed
C30_Witness ==
    /\ clientOp.op = "toggleFavorite" /\ clientOp.phase = "call"
    /\ inflight # Null /\ inflight.newFavoriteStatus
    /\ inflight.agentId \in C21_Ids(clientOp.before["favorites"].data)
    /\ inflight.agentId \in C21_Ids(swr["favorites"].data)

====
